---- MODULE Spec2Model ----
(***************************************************************************)
(* Farcaster fan-token frames (MisterGoldie/fantokens).                    *)
(*                                                                         *)
(* The server is a set of frame routes.  A request runs its route handler  *)
(* up to the first upstream call, is suspended while the call is           *)
(* outstanding, and continues when the reply arrives.  One action models   *)
(* one such handler segment.  Requests interleave at the suspension points.*)
(*                                                                         *)
(* Strings whose characters matter (addresses, token symbols, button       *)
(* values, decimal balances) are sequences of one-character strings.       *)
(***************************************************************************)
EXTENDS Integers, Sequences, FiniteSets, TLC

VARIABLES
    users,          \* upstream token indexer: lower-case user id -> user entity, if any
    social,         \* upstream social graph: the Social entries of the user id
    lockWallets,    \* upstream vesting index: lower-case beneficiary -> vesting contracts
    active,         \* the request slots in use
    hung,           \* the requests whose outstanding upstream call never returns
    session,        \* the client: the views it was shown and what it pressed on each
    req,            \* per request: input, position in the handler, handler locals
    allOwnedTokens, \* the accumulator of each handler activation
    calls,          \* per request: the upstream queries issued so far
    replies,        \* per request: the outcomes received so far
    response        \* per request: the rendered response, once there is one

vars == <<users, social, lockWallets, active, hung, session, req, allOwnedTokens, calls, replies, response>>

(* A JavaScript number that may be NaN. *)
Num(n) == [nan |-> FALSE, v |-> n]
NaN == [nan |-> TRUE, v |-> 0]

Reqs == {"r1", "r2"}

(* The number of holdings of one user one upstream query answers with. *)
PageSize == 2

-----------------------------------------------------------------------------
(* Strings *)

LowerChar(c) ==
    CASE c = "A" -> "a"
      [] c = "B" -> "b"
      [] c = "C" -> "c"
      [] c = "D" -> "d"
      [] OTHER -> c

toLowerCase(s) == [i \in DOMAIN s |-> LowerChar(s[i])]

Digits == {"0", "1", "2", "3", "4", "5", "6", "7", "8", "9"}

(* The value of an expression, computed once: the element of a set of one. *)
Once(S) == CHOOSE v \in S : TRUE

DigitVal(c) ==
    CASE c = "0" -> 0 [] c = "1" -> 1 [] c = "2" -> 2 [] c = "3" -> 3
      [] c = "4" -> 4 [] c = "5" -> 5 [] c = "6" -> 6 [] c = "7" -> 7
      [] c = "8" -> 8 [] c = "9" -> 9

(* The value of the longest prefix of digits of s, from accumulator acc. *)
RECURSIVE DigitPrefixVal(_, _)
DigitPrefixVal(s, acc) ==
    IF s = <<>> \/ Head(s) \notin Digits THEN acc
    ELSE DigitPrefixVal(Tail(s), 10 * acc + DigitVal(Head(s)))

(* parseInt(s): an optional sign, then the leading digits; NaN without one. *)
parseInt(s) ==
    LET neg  == s # <<>> /\ Head(s) = "-"
        body == IF s # <<>> /\ Head(s) \in {"-", "+"} THEN Tail(s) ELSE s
    IN  IF body = <<>> \/ Head(body) \notin Digits THEN NaN
        ELSE IF neg THEN Num(0 - DigitPrefixVal(body, 0)) ELSE Num(DigitPrefixVal(body, 0))

(* parseFloat on the decimal strings of the model (unsigned integers). *)
parseFloat(s) ==
    IF s = <<>> \/ Head(s) \notin Digits THEN NaN ELSE Num(DigitPrefixVal(s, 0))

(* Math.max(0, n): NaN is contagious. *)
MathMax0(n) == IF n.nan THEN NaN ELSE IF n.v < 0 THEN Num(0) ELSE n

(* symbol.startsWith('fid:') *)
StartsWithFid(sym) == Len(sym) >= 4 /\ SubSeq(sym, 1, 4) = <<"f", "i", "d", ":">>

(* s.split(':'): the pieces of s between colons. *)
RECURSIVE SplitColon(_, _)
SplitColon(s, cur) ==
    IF s = <<>> THEN <<cur>>
    ELSE IF Head(s) = ":" THEN <<cur>> \o SplitColon(Tail(s), <<>>)
    ELSE SplitColon(Tail(s), Append(cur, Head(s)))

-----------------------------------------------------------------------------
(* Sequences *)

RECURSIVE Flatten(_)
Flatten(ss) == IF ss = <<>> THEN <<>> ELSE Head(ss) \o Flatten(Tail(ss))

(* [...new Set(xs)]: first occurrences, in order; equality is exact. *)
RECURSIVE SetDedupe(_, _)
SetDedupe(xs, seen) ==
    IF xs = <<>> THEN <<>>
    ELSE IF Head(xs) \in seen THEN SetDedupe(Tail(xs), seen)
    ELSE <<Head(xs)>> \o SetDedupe(Tail(xs), seen \cup {Head(xs)})

Range(s) == {s[i] : i \in DOMAIN s}

Last(s) == s[Len(s)]

Count(s, x) == Cardinality({i \in DOMAIN s : s[i] = x})

-----------------------------------------------------------------------------
(* Upstream data *)

AB  == <<"a", "b">>
ABu == <<"A", "B">>
CD  == <<"c", "d">>

(* The user ids of the token indexer, in the order it lists entities. *)
IdOrder == <<AB, CD>>

(* TokenHolding: decimal-string balance and the subject token. *)
Holding(bal, buy, sell, price, name, sym) ==
    [balance |-> bal, buyVolume |-> buy, sellVolume |-> sell,
     subjectToken |-> [name |-> name, symbol |-> sym, currentPriceInMoxie |-> price]]

H10 == Holding(<<"1", "0">>, <<"4">>, <<"0">>, <<"2">>, "chan", <<"c", "i", "d", ":", "m">>)
H9  == Holding(<<"9">>, <<"1", "2">>, <<"3">>, <<"1">>, "tok7", <<"f", "i", "d", ":", "7">>)
H3  == Holding(<<"3">>, <<"3">>, <<"0">>, <<"5">>, "base", <<"i", "d", ":", "b">>)
(* A symbol that starts with fid: and goes on with something else than digits. *)
Hx  == Holding(<<"2">>, <<"1">>, <<"0">>, <<"1">>, "odd", <<"f", "i", "d", ":", "x">>)

NoUser == [exists |-> FALSE, portfolio |-> <<>>]
User(p) == [exists |-> TRUE, portfolio |-> p]

UsersStores ==
    { [id \in Range(IdOrder) |-> IF id = AB THEN a ELSE c] :
        a \in {NoUser, User(<<>>), User(<<H9>>), User(<<Hx>>), User(<<H3, H10>>), User(<<H10, H9, H3>>)},
        c \in {NoUser, User(<<H10>>)} }

NoSocial == <<>>
Social(addr, assoc) == <<[userAddress |-> addr, userAssociatedAddresses |-> assoc]>>

SocialStores == {NoSocial, Social(AB, <<>>), Social(ABu, <<AB>>), Social(AB, <<AB, CD>>)}

LockWalletStores ==
    { [id \in Range(IdOrder) |-> IF id = AB THEN w ELSE <<>>] : w \in {<<>>, <<CD>>} }

(* What the upstream answers with, or that it fails: a non-success HTTP
   status, or a 200 response carrying GraphQL errors. *)
Outcomes == {"ok", "http", "graphql"}

(* users(where: {id_in: ids}) { portfolio {...} }: the user entities whose id
   is among ids, each once, each with one page of its portfolio. *)
Page(p, skip) == SubSeq(p, skip + 1, IF Len(p) < skip + PageSize THEN Len(p) ELSE skip + PageSize)

UsersPage(ids, skip) ==
    LET hit == SelectSeq(IdOrder, LAMBDA id : id \in Range(ids) /\ users[id].exists)
    IN  [i \in DOMAIN hit |-> [portfolio |-> Page(users[hit[i]].portfolio, skip)]]

(* A fetch answered from the reply an earlier fetch for the same addresses
   got, whichever request made it. *)
UsersWhereIdInCached(ids) ==
    LET hits == { <<r, k>> \in Reqs \X (1..4) :
                    /\ k <= Len(replies[r])
                    /\ calls[r][k] = [api |-> "users", variables |-> ids]
                    /\ replies[r][k].outcome = "ok" }
    IN  IF hits = {} THEN UsersPage(ids, 0)
        ELSE LET h == CHOOSE h \in hits : TRUE IN replies[h[1]][h[2]].users

(* The queries of the program name no page: they are answered with the first. *)
UsersWhereIdIn(ids) == UsersPage(ids, 0)

(* tokenLockWallets(where: {beneficiary_in: bs}) { address: id } *)
LockWalletsWhereBeneficiaryIn(bs) ==
    LET hit == SelectSeq(IdOrder, LAMBDA id : id \in Range(bs))
    IN  Flatten([i \in DOMAIN hit |->
                    [j \in DOMAIN lockWallets[hit[i]] |-> [address |-> lockWallets[hit[i]][j]]]])

(* The replies to GetProfileInfo: Wallet present or not, the Social list. *)
ProfileData ==
    { [Wallet |-> TRUE, Social |-> <<[profileDisplayName |-> "alice", hasScore |-> TRUE]>>],
      [Wallet |-> TRUE, Social |-> <<[profileDisplayName |-> "alice", hasScore |-> FALSE]>>],
      [Wallet |-> FALSE, Social |-> <<[profileDisplayName |-> "alice", hasScore |-> TRUE]>>],
      [Wallet |-> TRUE, Social |-> <<>>] }

(* The replies to TrackFanTokenData: the auctions, each with its reward
   distribution or without it. *)
Auction(rdp) == [entityName |-> "tok7", hasRewardDistribution |-> rdp]
AuctionData == {<<>>, <<Auction(TRUE)>>, <<Auction(TRUE), Auction(FALSE)>>}

(* The replies to subjectTokens(where: {symbol_starts_with}): none or one. *)
TokenAddressData == {<<>>, <<[address |-> ABu, name |-> "tok7", symbol |-> <<"f", "i", "d", ":", "7">>]>>}

(* The replies to subjectTokens(where: {id}): the price and the holders. *)
SubjectToken(name, sym, price, holders) ==
    [name |-> name, symbol |-> sym, currentPriceInMoxie |-> price, holders |-> holders]
TokenInfoData ==
    { <<>>,
      <<SubjectToken("tok7", <<"f", "i", "d", ":", "7">>, <<"3">>, 2)>>,
      <<SubjectToken("chan", <<"c", "i", "d", ":", "m">>, <<"1", "0">>, 0)>>,
      <<SubjectToken("odd", <<"f", "i", "d", ":", "x">>, <<"1">>, 1)>> }

(* The replies to the powerBoost query: no score, or the score. *)
PowerBoostData == {[has |-> FALSE, v |-> 0], [has |-> TRUE, v |-> 0], [has |-> TRUE, v |-> 5]}

-----------------------------------------------------------------------------
(* Requests *)

NoFid == [has |-> FALSE, id |-> <<>>]
Fid7  == [has |-> TRUE, id |-> <<"7">>]
Fids  == {NoFid, Fid7}

(* c.buttonValue: absent, or the string the pressed button carried. *)
NoValue == [has |-> FALSE, s |-> <<>>]
Value(s) == [has |-> TRUE, s |-> s]
ButtonValues == {NoValue, Value(<<"1">>), Value(<<"-", "1">>), Value(<<"x">>), Value(<<"3">>)}

NoResponse == [kind |-> "none"]

NoToken == Holding(<<>>, <<>>, <<>>, <<>>, "", <<>>)

NullTokenInfo == [isNull |-> TRUE, name |-> "", symbol |-> <<>>, price |-> <<>>, holders |-> 0]

NullProfile == [isNull |-> TRUE, profileDisplayName |-> ""]

(* The query parameters of /share-owned besides fid. *)
NoQuery == [tokenAddress |-> NoValue, balance |-> NoValue, buyVolume |-> NoValue,
            currentPrice |-> NoValue]

IdleReq ==
    [route |-> "", fid |-> NoFid, buttonValue |-> NoValue, pc |-> "idle",
     currentIndex |-> Num(0), userAddresses |-> <<>>, token |-> NoToken,
     i |-> 0, allVestingAddresses |-> <<>>, fetched |-> [isNull |-> TRUE, list |-> <<>>],
     tokenInfo |-> NullTokenInfo, profile |-> NullProfile, query |-> NoQuery]

Button(label, action) == [label |-> label, action |-> action, value |-> <<>>]
ValueButton(label, action, v) == [label |-> label, action |-> action, value |-> v]

(* A check of the user id that lets every request through. *)
MissingFidNever(fid) == FALSE

(* `if (!fid)` *)
MissingFid(fid) == ~fid.has

(* The static response of a request without a user id. *)
NoFidResponse(label) == [kind |-> "noFid", buttons |-> <<Button(label, "/")>>]

(* An accumulator kept in one place for all requests. *)
OwnedTokensScopeShared(r) == "r1"

(* The scope of the handler's accumulator: a local of the activation. *)
OwnedTokensScope(r) == r

Init ==
    /\ users \in UsersStores
    /\ social \in SocialStores
    /\ lockWallets \in LockWalletStores
    /\ active = {"r1"}
    /\ hung = {}
    /\ session = <<>>
    /\ req = [r \in Reqs |-> IdleReq]
    /\ allOwnedTokens = [r \in Reqs |-> <<>>]
    /\ calls = [r \in Reqs |-> <<>>]
    /\ replies = [r \in Reqs |-> <<>>]
    /\ response = [r \in Reqs |-> NoResponse]

Upstream == <<users, social, lockWallets, active, hung, session>>

(* A call that starts the portfolio query alongside the one asked for. *)
IssueAhead(r, q) ==
    calls' = [calls EXCEPT ![r] = Append(Append(@, q), [api |-> "users", variables |-> <<>>])]

(* The common frame of a handler segment of request r. *)
Issue(r, q) == calls' = [calls EXCEPT ![r] = Append(@, q)]
(* Request s is suspended at an upstream call. *)
InFlight(s) == req[s].pc \notin {"idle", "done"}

(* The reply log notes, for a portfolio reply, whether another request was
   suspended meanwhile. *)
Got(r, api, out, data) ==
    replies' = [replies EXCEPT ![r] =
                  Append(@, [api |-> api, outcome |-> out, users |-> data,
                             overlap |-> api = "users" /\ \E s \in Reqs \ {r} : InFlight(s)])]
Respond(r, res) == response' = [response EXCEPT ![r] = res]

-----------------------------------------------------------------------------
(* Helpers of src/api/index.tsx (the second module of the file) *)

Threw(msg) == [threw |-> TRUE, message |-> msg, value |-> <<>>]
Returned(v) == [threw |-> FALSE, message |-> "", value |-> v]

(* getFarcasterAddressesFromFID: rethrows a failed request, throws when there
   is no Social entry, else the addresses without exact duplicates. *)
getFarcasterAddressesFromFID(out, data) ==
    IF out # "ok" THEN Threw(out)
    ELSE IF data = <<>> THEN Threw("No Farcaster profile found")
    ELSE Returned(SetDedupe(<<data[1].userAddress>> \o data[1].userAssociatedAddresses, {}))

NullAddress == [isNull |-> TRUE, address |-> <<>>]

(* getVestingContractAddress: the first lock wallet, or null; null on failure. *)
getVestingContractAddress(out, data) ==
    IF out = "ok" /\ data # <<>> THEN [isNull |-> FALSE, address |-> data[1].address]
    ELSE NullAddress

NullList == [isNull |-> TRUE, list |-> <<>>]
List(l) == [isNull |-> FALSE, list |-> l]

(* A fetch without the check for an empty users list. *)
getOwnedFanTokensUnchecked(out, data) ==
    IF out # "ok" THEN NullList
    ELSE List(Flatten([i \in DOMAIN data |-> data[i].portfolio]))

(* getOwnedFanTokens(addresses): null on failure and when no user comes back,
   else the portfolios of the users returned, concatenated. *)
getOwnedFanTokens(out, data) ==
    IF out # "ok" THEN NullList
    ELSE IF data = <<>> THEN NullList
    ELSE List(Flatten([i \in DOMAIN data |-> data[i].portfolio]))

(* variables of getOwnedFanTokens(addresses), index.tsx *)
OwnedQueryAll(addresses) ==
    [api |-> "users", variables |-> [i \in DOMAIN addresses |-> toLowerCase(addresses[i])]]

(* `x || []` *)
OrEmpty(x) == IF x.isNull THEN <<>> ELSE x.list

(* getProfileInfo: null on failure and on incomplete data. *)
getProfileInfo(out, data) ==
    IF out # "ok" THEN NullProfile
    ELSE IF ~data.Wallet \/ data.Social = <<>> THEN NullProfile
    ELSE [isNull |-> FALSE, profileDisplayName |-> data.Social[1].profileDisplayName]

(* n.toString() for n >= 0 *)
DigitChar(d) ==
    CASE d = 0 -> "0" [] d = 1 -> "1" [] d = 2 -> "2" [] d = 3 -> "3" [] d = 4 -> "4"
      [] d = 5 -> "5" [] d = 6 -> "6" [] d = 7 -> "7" [] d = 8 -> "8" [] d = 9 -> "9"

RECURSIVE toString(_)
toString(n) == IF n < 10 THEN <<DigitChar(n)>> ELSE Append(toString(n \div 10), DigitChar(n % 10))

(* allOwnedTokens[currentIndex]: undefined off the list and for NaN. *)
InList(list, idx) == ~idx.nan /\ idx.v >= 0 /\ idx.v < Len(list)

ErrorResponse(msg) == [kind |-> "error", message |-> msg, buttons |-> <<Button("Home", "/")>>]

NoTokensResponse == [kind |-> "noTokens", buttons |-> <<Button("Back", "/")>>]

-----------------------------------------------------------------------------
(* The formatters of the holding views *)

NA == <<"N", "/", "A">>

(* BigInt(s) accepts the strings of digits, with or without a sign. *)
IsBigInt(s) ==
    \/ \A k \in DOMAIN s : s[k] \in Digits
    \/ /\ Len(s) >= 2
       /\ Head(s) \in {"-", "+"}
       /\ \A k \in 2..Len(s) : s[k] \in Digits

(* The magnitude formatter formatNumber.  A number is its
   sign, its whole part and its fraction in millionths; strings carry at most
   six fraction digits. *)

Dec(neg, int, frac) == [nan |-> FALSE, neg |-> neg, int |-> int, frac |-> frac]
DecNaN == [nan |-> TRUE, neg |-> FALSE, int |-> 0, frac |-> 0]

RECURSIVE DigitPrefix(_)
DigitPrefix(s) ==
    IF s = <<>> \/ Head(s) \notin Digits THEN <<>> ELSE <<Head(s)>> \o DigitPrefix(Tail(s))

(* parseFloat(s): sign, digits, a point and digits; NaN without any digit. *)
parseFloatDec(s) ==
    LET neg  == s # <<>> /\ Head(s) = "-"
        body == IF s # <<>> /\ Head(s) \in {"-", "+"} THEN Tail(s) ELSE s
        ds   == DigitPrefix(body)
        rest == SubSeq(body, Len(ds) + 1, Len(body))
        fs   == IF rest # <<>> /\ Head(rest) = "." THEN DigitPrefix(Tail(rest)) ELSE <<>>
    IN  IF ds = <<>> /\ fs = <<>> THEN DecNaN
        ELSE Dec(neg, DigitPrefixVal(ds, 0),
                 DigitPrefixVal(SubSeq(fs \o <<"0", "0", "0", "0", "0", "0">>, 1, 6), 0))

(* num / 1e3, num / 1e6, num / 1e9 *)
DivideBy(num, d) ==
    Dec(num.neg, num.int \div d,
        IF d = 1000 THEN (num.int % 1000) * 1000 + num.frac \div 1000
        ELSE IF d = 1000000 THEN num.int % 1000000
        ELSE (num.int % 1000000000) \div 1000)

(* num.toFixed(2): the nearest hundredth, the larger one of two; "NaN". *)
toFixed(num) ==
    IF num.nan THEN <<"N", "a", "N">>
    ELSE LET up    == (num.frac \div 1000) % 10 >= 5
             cents == num.frac \div 10000 + (IF up THEN 1 ELSE 0)
             int   == IF cents = 100 THEN num.int + 1 ELSE num.int
         IN  (IF num.neg /\ (num.int # 0 \/ num.frac # 0) THEN <<"-">> ELSE <<>>)
             \o toString(int)
             \o <<".", DigitChar((cents % 100) \div 10), DigitChar(cents % 10)>>

(* num.toExponential(2) of a positive number below 0.01: one digit, a point,
   two digits, e- and the exponent. *)
toExponential(num) ==
    LET n  == Len(toString(num.frac))
        m4 == num.frac * (CASE n = 1 -> 1000 [] n = 2 -> 100 [] n = 3 -> 10 [] OTHER -> 1)
        m  == m4 \div 10 + (IF m4 % 10 >= 5 THEN 1 ELSE 0)
        e  == IF m = 1000 THEN 6 - n ELSE 7 - n
        d  == IF m = 1000 THEN 100 ELSE m
    IN  <<DigitChar(d \div 100), ".", DigitChar((d \div 10) % 10), DigitChar(d % 10), "e", "-">>
        \o toString(e)

(* num >= n, for a whole n *)
AtLeast(num, n) == ~num.nan /\ ~num.neg /\ num.int >= n
(* A test for small values that lets 0 through. *)
TinyFromZero(num) == ~num.nan /\ ~num.neg /\ num.int = 0 /\ num.frac < 10000

(* num > 0 && num < 0.01 *)
Tiny(num) == ~num.nan /\ ~num.neg /\ num.int = 0 /\ num.frac > 0 /\ num.frac < 10000

(* A formatter whose K suffix starts above 1e3 instead of at 1e3. *)
formatNumberAbove(value) ==
    IF ~value.has THEN NA
    ELSE Once({ IF AtLeast(num, 1000000000) THEN toFixed(DivideBy(num, 1000000000)) \o <<"B">>
                ELSE IF AtLeast(num, 1000000) THEN toFixed(DivideBy(num, 1000000)) \o <<"M">>
                ELSE IF AtLeast(num, 1001) THEN toFixed(DivideBy(num, 1000)) \o <<"K">>
                ELSE IF Tiny(num) THEN toExponential(num)
                ELSE toFixed(num) :
                  num \in {parseFloatDec(value.s)} })

(* formatNumber of index.tsx and of /owned-tokens of part_002 *)
formatNumber(value) ==
    IF ~value.has THEN NA
    ELSE Once({ IF AtLeast(num, 1000000000) THEN toFixed(DivideBy(num, 1000000000)) \o <<"B">>
                ELSE IF AtLeast(num, 1000000) THEN toFixed(DivideBy(num, 1000000)) \o <<"M">>
                ELSE IF AtLeast(num, 1000) THEN toFixed(DivideBy(num, 1000)) \o <<"K">>
                ELSE IF Tiny(num) THEN toExponential(num)
                ELSE toFixed(num) :
                  num \in {parseFloatDec(value.s)} })

(* formatNumber of /share-owned of part_002: a string in, N/A for NaN *)
formatNumberShare(value) ==
    Once({ IF num.nan THEN NA
           ELSE IF AtLeast(num, 1000000000) THEN toFixed(DivideBy(num, 1000000000)) \o <<"B">>
           ELSE IF AtLeast(num, 1000000) THEN toFixed(DivideBy(num, 1000000)) \o <<"M">>
           ELSE IF AtLeast(num, 1000) THEN toFixed(DivideBy(num, 1000)) \o <<"K">>
           ELSE IF Tiny(num) THEN toExponential(num)
           ELSE toFixed(num) :
             num \in {parseFloatDec(value.s)} })

(* The wei-to-display formatter formatBalance.  The balance is a string of
   digits of any length; the quotient by 10^decimals is kept as the digits of
   its whole part and of its fraction. *)

(* decimals: number = 18 *)
DefaultDecimals == 18

Zeros(n) == [k \in 1..n |-> "0"]

(* The digits from the first one that is not 0, or from the last digit. *)
StripLeadingZeros(ds) ==
    LET from == {k \in DOMAIN ds : ds[k] # "0" \/ k = Len(ds)}
    IN  IF from = {} THEN ds
        ELSE SubSeq(ds, CHOOSE k \in from : \A j \in from : k <= j, Len(ds))

(* The digits up to the last one that is not 0. *)
StripTrailingZeros(ds) ==
    LET upto == {k \in DOMAIN ds : ds[k] # "0"}
    IN  IF upto = {} THEN <<>>
        ELSE SubSeq(ds, 1, CHOOSE k \in upto : \A j \in upto : k >= j)

(* The digits of n + 1. *)
RECURSIVE Increment(_)
Increment(ds) ==
    IF ds = <<>> THEN <<"1">>
    ELSE IF ds[Len(ds)] = "9" THEN Append(Increment(SubSeq(ds, 1, Len(ds) - 1)), "0")
    ELSE Append(SubSeq(ds, 1, Len(ds) - 1), DigitChar(DigitVal(ds[Len(ds)]) + 1))

(* x.toFixed(2) of the quotient whole.frac: from 1e21 on the number as
   String(x) prints it (digit, point, digits, e+, exponent); below, the
   nearest hundredth.  Computed on the decimal digits of the quotient: for
   the balances of BalanceValues the double that Number(balanceWei) /
   Number(denomination) yields rounds and prints as the quotient itself. *)
toFixedDigits(whole, frac) ==
    IF Len(whole) >= 22
    THEN LET sig == StripTrailingZeros(whole \o frac)
         IN  <<Head(sig)>> \o (IF Len(sig) > 1 THEN <<".">> \o Tail(sig) ELSE <<>>)
             \o <<"e", "+">> \o toString(Len(whole) - 1)
    ELSE LET three == SubSeq(frac \o <<"0", "0", "0">>, 1, 3)
             kept  == whole \o SubSeq(three, 1, 2)
             n     == StripLeadingZeros(IF DigitVal(three[3]) >= 5 THEN Increment(kept) ELSE kept)
         IN  Once({ SubSeq(all, 1, Len(all) - 2) \o <<".">> \o SubSeq(all, Len(all) - 1, Len(all)) :
                      all \in {IF Len(n) < 3 THEN Zeros(3 - Len(n)) \o n ELSE n} })

(* formatBalance(balance, decimals): BigInt(balance) throws on a string that
   is not an integer; the empty string is 0n. *)
formatBalance(balance, decimals) ==
    IF ~IsBigInt(balance) THEN Threw("SyntaxError")
    ELSE LET signed == balance # <<>> /\ Head(balance) \in {"-", "+"}
             ds     == Zeros(decimals + 1) \o (IF signed THEN Tail(balance) ELSE balance)
             minus  == signed /\ Head(balance) = "-" /\ \E k \in DOMAIN ds : ds[k] # "0"
         IN  Returned((IF minus THEN <<"-">> ELSE <<>>)
                      \o Once({ toFixedDigits(whole, frac) :
                                  whole \in {StripLeadingZeros(SubSeq(ds, 1, Len(ds) - decimals))},
                                  frac \in {SubSeq(ds, Len(ds) - decimals + 1, Len(ds))} }))

-----------------------------------------------------------------------------
(* The views of /owned-tokens of src/api/index.tsx *)

(* The three formatted texts of a holding view, unless BigInt throws. *)
FormatsOf(token) ==
    Once({ IF tokenBalance.threw THEN tokenBalance
           ELSE IF buyVolume.threw THEN buyVolume
           ELSE Returned([tokenBalance |-> tokenBalance.value,
                          buyVolume |-> buyVolume.value,
                          currentPrice |-> currentPrice]) :
             tokenBalance \in {formatBalance(token.balance, DefaultDecimals)},
             buyVolume \in {formatBalance(token.buyVolume, DefaultDecimals)},
             currentPrice \in {formatNumber(Value(token.subjectToken.currentPriceInMoxie))} })

(* The holdings the upstream can hold, each with its formatted texts; the
   texts of a holding are worked out once, not again for every view. *)
Holdings == {H10, H9, H3, Hx}

FormatsTable == { <<token, FormatsOf(token)>> : token \in Holdings }

Formats(token) == (CHOOSE entry \in FormatsTable : entry[1] = token)[2]

(* `${x}` of an undefined x *)
Undefined == <<"u", "n", "d", "e", "f", "i", "n", "e", "d">>

(* The share link of /owned-tokens of part_002: the holding in the query
   string; token.subjectToken.id is not among the fields the portfolio query
   asks for. *)
ShareLink2(fid, token) ==
    [label |-> "Share", action |-> "share-owned", value |-> fid.id,
     query |-> [tokenAddress |-> Value(Undefined),
                balance |-> Value(token.balance),
                buyVolume |-> Value(token.buyVolume),
                currentPrice |-> Value(token.subjectToken.currentPriceInMoxie)]]

ShareLink(fid, idx) ==
    [label |-> "Share", action |-> "share-owned", value |-> fid.id \o <<"&">> \o toString(idx)]

(* A holding view whose position label counts from the cursor plus one. *)
HoldingViewOneBased(fid, list, idx, token, profile) ==
    IF Formats(token).threw THEN ErrorResponse(Formats(token).message)
    ELSE
    [kind |-> "holding",
     index |-> idx + 1,
     total |-> Len(list),
     token |-> token,
     tokenOwnerName |-> IF ~profile.isNull /\ profile.profileDisplayName # ""
                        THEN profile.profileDisplayName ELSE token.subjectToken.name,
     tokenBalance |-> Formats(token).value.tokenBalance,
     buyVolume |-> Formats(token).value.buyVolume,
     currentPrice |-> Formats(token).value.currentPrice,
     buttons |-> <<Button("Home", "/")>>
                 \o (IF idx < Len(list) - 1
                     THEN <<ValueButton("Next", "/owned-tokens", toString(idx + 1))>> ELSE <<>>)
                 \o (IF idx > 0
                     THEN <<ValueButton("Previous", "/owned-tokens", toString(idx - 1))>> ELSE <<>>)
                 \o <<ShareLink(fid, idx)>>]

(* A holding view that offers Next on the last holding as well. *)
HoldingViewNextOnLast(fid, list, idx, token, profile) ==
    IF Formats(token).threw THEN ErrorResponse(Formats(token).message)
    ELSE
    [kind |-> "holding",
     index |-> idx,
     total |-> Len(list),
     token |-> token,
     tokenOwnerName |-> IF ~profile.isNull /\ profile.profileDisplayName # ""
                        THEN profile.profileDisplayName ELSE token.subjectToken.name,
     tokenBalance |-> Formats(token).value.tokenBalance,
     buyVolume |-> Formats(token).value.buyVolume,
     currentPrice |-> Formats(token).value.currentPrice,
     buttons |-> <<Button("Home", "/")>>
                 \o (IF idx < Len(list)
                     THEN <<ValueButton("Next", "/owned-tokens", toString(idx + 1))>> ELSE <<>>)
                 \o (IF idx > 0
                     THEN <<ValueButton("Previous", "/owned-tokens", toString(idx - 1))>> ELSE <<>>)
                 \o <<ShareLink(fid, idx)>>]

(* The holding view of /owned-tokens: position, name, and the buttons. *)
HoldingView(fid, list, idx, token, profile) ==
    IF Formats(token).threw THEN ErrorResponse(Formats(token).message)
    ELSE
    [kind |-> "holding",
     index |-> idx,
     total |-> Len(list),
     token |-> token,
     tokenOwnerName |-> IF ~profile.isNull /\ profile.profileDisplayName # ""
                        THEN profile.profileDisplayName ELSE token.subjectToken.name,
     tokenBalance |-> Formats(token).value.tokenBalance,
     buyVolume |-> Formats(token).value.buyVolume,
     currentPrice |-> Formats(token).value.currentPrice,
     buttons |-> <<Button("Home", "/")>>
                 \o (IF idx < Len(list) - 1
                     THEN <<ValueButton("Next", "/owned-tokens", toString(idx + 1))>> ELSE <<>>)
                 \o (IF idx > 0
                     THEN <<ValueButton("Previous", "/owned-tokens", toString(idx - 1))>> ELSE <<>>)
                 \o <<ShareLink(fid, idx)>>]

-----------------------------------------------------------------------------
(* /owned-tokens of src/api/index.tsx *)

(* /owned-tokens and /share-owned resolve the addresses, look up the vesting
   contract and fetch the portfolio with the same code. *)
IndexRoutes == {"owned-tokens", "share-owned"}

(* The catch block of /share-owned: a fixed text. *)
ShareOwnedError ==
    [kind |-> "error", message |-> "Error fetching fan token data. Please try again.",
     buttons |-> <<Button("Home", "/")>>]

(* A catch block that shows the same text whatever was thrown. *)
CatchGeneric(route, message) == ShareOwnedError

(* The catch block of the route: /owned-tokens shows error.message. *)
Catch(route, message) == IF route = "share-owned" THEN ShareOwnedError ELSE ErrorResponse(message)

(* The handler up to its first await: the cursor, the user-id check, and the
   address-resolution query. *)
(* A first segment that starts every request at the first holding. *)
OwnedTokensBeginAtZero(r, fid, bv) ==
    LET me == [IdleReq EXCEPT !.route = "owned-tokens", !.fid = fid,
                              !.buttonValue = bv, !.currentIndex = Num(0)]
    IN  /\ IF MissingFid(fid)
           THEN /\ req' = [req EXCEPT ![r] = [me EXCEPT !.pc = "done"]]
                /\ Respond(r, NoFidResponse("Back"))
                /\ UNCHANGED calls
           ELSE /\ req' = [req EXCEPT ![r] = [me EXCEPT !.pc = "addresses"]]
                /\ Issue(r, [api |-> "Socials", variables |-> <<fid.id>>])
                /\ UNCHANGED response
        /\ UNCHANGED <<allOwnedTokens, replies>>

(* The handler's first segment for user id fid and button value bv. *)
OwnedTokensBegin(r, fid, bv) ==
    LET cur == MathMax0(parseInt(IF bv.has /\ bv.s # <<>> THEN bv.s ELSE <<"0">>))
        me  == [IdleReq EXCEPT !.route = "owned-tokens", !.fid = fid,
                               !.buttonValue = bv, !.currentIndex = cur]
    IN  /\ IF MissingFid(fid)
           THEN /\ req' = [req EXCEPT ![r] = [me EXCEPT !.pc = "done"]]
                /\ Respond(r, NoFidResponse("Back"))
                /\ UNCHANGED calls
           ELSE /\ req' = [req EXCEPT ![r] = [me EXCEPT !.pc = "addresses"]]
                /\ Issue(r, [api |-> "Socials", variables |-> <<fid.id>>])
                /\ UNCHANGED response
        /\ UNCHANGED <<allOwnedTokens, replies>>

(* A request to /owned-tokens arrives, with any user id and any cursor. *)
OwnedTokensReceive(r) ==
    /\ r \in active
    /\ req[r].pc = "idle"
    /\ \E fid \in Fids, bv \in ButtonValues : OwnedTokensBegin(r, fid, bv)
    /\ UNCHANGED Upstream

(* Address resolution answered: on a throw the catch block renders the error,
   else the vesting-contract query is issued. *)
OwnedTokensAddresses(r) ==
    /\ req[r].route \in IndexRoutes
    /\ req[r].pc = "addresses"
    /\ \E out \in Outcomes :
        LET res == getFarcasterAddressesFromFID(out, social)
        IN  /\ Got(r, "Socials", out, <<>>)
            /\ IF res.threw
               THEN /\ req' = [req EXCEPT ![r].pc = "done"]
                    /\ Respond(r, Catch(req[r].route, res.message))
                    /\ UNCHANGED calls
               ELSE /\ req' = [req EXCEPT ![r].pc = "vesting", ![r].userAddresses = res.value]
                    /\ Issue(r, [api |-> "tokenLockWallets",
                                 variables |-> [i \in DOMAIN res.value |-> toLowerCase(res.value[i])]])
                    /\ UNCHANGED response
    /\ UNCHANGED <<Upstream, allOwnedTokens>>

(* The vesting lookup answered: the owner-address set is the user addresses
   plus the vesting contract, and the portfolio query is issued. *)
OwnedTokensVesting(r) ==
    /\ req[r].route \in IndexRoutes
    /\ req[r].pc = "vesting"
    /\ \E out \in Outcomes :
        LET v == getVestingContractAddress(out, LockWalletsWhereBeneficiaryIn(Last(calls[r]).variables))
            allAddresses == req[r].userAddresses \o (IF v.isNull THEN <<>> ELSE <<v.address>>)
        IN  /\ Got(r, "tokenLockWallets", out, <<>>)
            /\ req' = [req EXCEPT ![r].pc = "portfolio"]
            /\ Issue(r, OwnedQueryAll(allAddresses))
    /\ UNCHANGED <<Upstream, allOwnedTokens, response>>

(* The portfolio query answered: the empty state, or the holding at the
   cursor, with the profile lookup of a fid: token. *)
OwnedTokensPortfolio(r) ==
    /\ req[r].route = "owned-tokens"
    /\ req[r].pc = "portfolio"
    /\ \E out \in Outcomes :
        LET data  == IF out = "ok" THEN UsersWhereIdIn(Last(calls[r]).variables) ELSE <<>>
            got   == getOwnedFanTokens(out, data)
            list  == OrEmpty(got)
            idx   == req[r].currentIndex
            me    == [req[r] EXCEPT !.fetched = got]
        IN  /\ Got(r, "users", out, data)
            /\ allOwnedTokens' = [allOwnedTokens EXCEPT ![OwnedTokensScope(r)] = list]
            /\ IF list = <<>>
               THEN /\ req' = [req EXCEPT ![r] = [me EXCEPT !.pc = "done"]]
                    /\ Respond(r, NoTokensResponse)
                    /\ UNCHANGED calls
               ELSE IF ~InList(list, idx)
               THEN /\ req' = [req EXCEPT ![r] = [me EXCEPT !.pc = "done"]]
                    /\ Respond(r, ErrorResponse("TypeError"))
                    /\ UNCHANGED calls
               ELSE LET token == list[idx.v + 1]
                    IN  IF StartsWithFid(token.subjectToken.symbol)
                        THEN /\ req' = [req EXCEPT ![r] =
                                          [me EXCEPT !.pc = "tokenProfile", !.token = token]]
                             /\ Issue(r, [api |-> "GetProfileInfo",
                                          variables |-> <<SplitColon(token.subjectToken.symbol, <<>>)[2]>>])
                             /\ UNCHANGED response
                        ELSE /\ req' = [req EXCEPT ![r] = [me EXCEPT !.pc = "done", !.token = token]]
                             /\ Respond(r, HoldingView(req[r].fid, list, idx.v, token, NullProfile))
                             /\ UNCHANGED calls
    /\ UNCHANGED Upstream

(* The profile lookup of the token's owner answered: the holding view. *)
OwnedTokensProfile(r) ==
    /\ req[r].route = "owned-tokens"
    /\ req[r].pc = "tokenProfile"
    /\ \E out \in Outcomes, data \in ProfileData :
        /\ Got(r, "GetProfileInfo", out, <<>>)
        /\ req' = [req EXCEPT ![r].pc = "done", ![r].profile = getProfileInfo(out, data)]
        /\ Respond(r, HoldingView(req[r].fid, allOwnedTokens[OwnedTokensScope(r)],
                                  req[r].currentIndex.v, req[r].token,
                                  getProfileInfo(out, data)))
    /\ UNCHANGED <<Upstream, allOwnedTokens, calls>>

-----------------------------------------------------------------------------
(* /share-owned of src/api/index.tsx *)

NoTokenForIndexResponse == [kind |-> "noTokenForIndex", buttons |-> <<Button("Home", "/")>>]

(* A shared view that cannot be rendered without the owner's profile. *)
ShareOwnedViewNeedsProfile(token, profile) ==
    IF profile.isNull \/ Formats(token).threw THEN ShareOwnedError
    ELSE
    [kind |-> "sharedHolding",
     token |-> token,
     tokenOwnerName |-> profile.profileDisplayName,
     tokenBalance |-> Formats(token).value.tokenBalance,
     buyVolume |-> Formats(token).value.buyVolume,
     currentPrice |-> Formats(token).value.currentPrice,
     buttons |-> <<Button("Check Your Owned Tokens", "/owned-tokens")>>]

(* The shared view of one holding. *)
ShareOwnedView(token, profile) ==
    IF Formats(token).threw THEN ShareOwnedError
    ELSE
    [kind |-> "sharedHolding",
     token |-> token,
     tokenOwnerName |-> IF ~profile.isNull /\ profile.profileDisplayName # ""
                        THEN profile.profileDisplayName ELSE token.subjectToken.name,
     tokenBalance |-> Formats(token).value.tokenBalance,
     buyVolume |-> Formats(token).value.buyVolume,
     currentPrice |-> Formats(token).value.currentPrice,
     buttons |-> <<Button("Check Your Owned Tokens", "/owned-tokens")>>]

(* The handler up to its first await: fid and tokenIndex of the query string,
   the fid check, and the address-resolution query. *)
ShareOwnedBegin(r, fid, ti) ==
    LET tokenIndex == MathMax0(parseInt(IF ti.has /\ ti.s # <<>> THEN ti.s ELSE <<"0">>))
        me == [IdleReq EXCEPT !.route = "share-owned", !.fid = fid,
                              !.buttonValue = ti, !.currentIndex = tokenIndex]
    IN  /\ IF MissingFid(fid)
           THEN /\ req' = [req EXCEPT ![r] = [me EXCEPT !.pc = "done"]]
                /\ Respond(r, NoFidResponse("Home"))
                /\ UNCHANGED calls
           ELSE /\ req' = [req EXCEPT ![r] = [me EXCEPT !.pc = "addresses"]]
                /\ Issue(r, [api |-> "Socials", variables |-> <<fid.id>>])
                /\ UNCHANGED response
        /\ UNCHANGED <<allOwnedTokens, replies>>

(* A request to /share-owned arrives, with any fid and any tokenIndex. *)
ShareOwnedReceive(r) ==
    /\ r \in active
    /\ req[r].pc = "idle"
    /\ \E fid \in Fids, ti \in ButtonValues : ShareOwnedBegin(r, fid, ti)
    /\ UNCHANGED Upstream

(* A bounds check that lets the index one past the last holding through. *)
PastHoldingsOffByOne(list, idx) == list = <<>> \/ (~idx.nan /\ idx.v > Len(list))

(* `allOwnedTokens.length === 0 || tokenIndex >= allOwnedTokens.length` *)
PastHoldings(list, idx) == list = <<>> \/ (~idx.nan /\ idx.v >= Len(list))

(* The portfolio query answered: no holding for the index, or the holding at
   tokenIndex, with the profile lookup of a fid: token. *)
ShareOwnedPortfolio(r) ==
    /\ req[r].route = "share-owned"
    /\ req[r].pc = "portfolio"
    /\ \E out \in Outcomes :
        LET data == IF out = "ok" THEN UsersWhereIdIn(Last(calls[r]).variables) ELSE <<>>
            got  == getOwnedFanTokens(out, data)
            list == OrEmpty(got)
            idx  == req[r].currentIndex
            me   == [req[r] EXCEPT !.fetched = got]
        IN  /\ Got(r, "users", out, data)
            /\ allOwnedTokens' = [allOwnedTokens EXCEPT ![OwnedTokensScope(r)] = list]
            /\ IF PastHoldings(list, idx)
               THEN /\ req' = [req EXCEPT ![r] = [me EXCEPT !.pc = "done"]]
                    /\ Respond(r, NoTokenForIndexResponse)
                    /\ UNCHANGED calls
               ELSE IF ~InList(list, idx)
               THEN /\ req' = [req EXCEPT ![r] = [me EXCEPT !.pc = "done"]]
                    /\ Respond(r, ShareOwnedError)
                    /\ UNCHANGED calls
               ELSE LET token == list[idx.v + 1]
                    IN  IF StartsWithFid(token.subjectToken.symbol)
                        THEN /\ req' = [req EXCEPT ![r] =
                                          [me EXCEPT !.pc = "tokenProfile", !.token = token]]
                             /\ Issue(r, [api |-> "GetProfileInfo",
                                          variables |-> <<SplitColon(token.subjectToken.symbol, <<>>)[2]>>])
                             /\ UNCHANGED response
                        ELSE /\ req' = [req EXCEPT ![r] = [me EXCEPT !.pc = "done", !.token = token]]
                             /\ Respond(r, ShareOwnedView(token, NullProfile))
                             /\ UNCHANGED calls
    /\ UNCHANGED Upstream

(* The profile lookup of the token's owner answered: the shared view. *)
ShareOwnedProfile(r) ==
    /\ req[r].route = "share-owned"
    /\ req[r].pc = "tokenProfile"
    /\ \E out \in Outcomes, data \in ProfileData :
        /\ Got(r, "GetProfileInfo", out, <<>>)
        /\ req' = [req EXCEPT ![r].pc = "done", ![r].profile = getProfileInfo(out, data)]
        /\ Respond(r, ShareOwnedView(req[r].token, getProfileInfo(out, data)))
    /\ UNCHANGED <<Upstream, allOwnedTokens, calls>>

-----------------------------------------------------------------------------
(* /owned-tokens of src/unnamed/part_002: one portfolio query and one vesting
   query per user address, in a loop *)

(* getOwnedFanTokens(userAddress): null on failure and when no user comes
   back, else the portfolio of the first user. *)
getOwnedFanTokensOf(out, data) ==
    IF out # "ok" THEN NullList
    ELSE IF data = <<>> THEN NullList
    ELSE List(data[1].portfolio)

(* getVestingContractAddresses(ethAddress): the lock wallets; rethrows. *)
getVestingContractAddresses(out, data) ==
    IF out # "ok" THEN Threw(out)
    ELSE Returned([j \in DOMAIN data |-> data[j].address])

HoldingView2(fid, list, idx, token, profile) ==
    IF Formats(token).threw THEN ErrorResponse(Formats(token).message)
    ELSE
    [kind |-> "holding",
     index |-> idx,
     total |-> Len(list),
     token |-> token,
     tokenOwnerName |-> IF ~profile.isNull /\ profile.profileDisplayName # ""
                        THEN profile.profileDisplayName ELSE token.subjectToken.name,
     tokenBalance |-> Formats(token).value.tokenBalance,
     buyVolume |-> Formats(token).value.buyVolume,
     currentPrice |-> Formats(token).value.currentPrice,
     buttons |-> <<Button("Home", "/")>>
                 \o (IF idx > 0
                     THEN <<ValueButton("Previous", "/owned-tokens", toString(idx - 1))>> ELSE <<>>)
                 \o (IF idx < Len(list) - 1
                     THEN <<ValueButton("Next", "/owned-tokens", toString(idx + 1))>> ELSE <<>>)
                 \o <<ShareLink2(fid, token)>>]

OwnedQuery(address) == [api |-> "users", variables |-> <<toLowerCase(address)>>]

OwnedTokens2Receive(r) ==
    /\ r \in active
    /\ req[r].pc = "idle"
    /\ \E fid \in Fids, bv \in ButtonValues :
        LET cur == parseInt(IF bv.has /\ bv.s # <<>> THEN bv.s ELSE <<"0">>)
            me  == [req[r] EXCEPT !.route = "owned-tokens.v2", !.fid = fid,
                                  !.buttonValue = bv, !.currentIndex = cur]
        IN  IF MissingFid(fid)
            THEN /\ req' = [req EXCEPT ![r] = [me EXCEPT !.pc = "done"]]
                 /\ Respond(r, NoFidResponse("Back"))
                 /\ UNCHANGED calls
            ELSE /\ req' = [req EXCEPT ![r] = [me EXCEPT !.pc = "addresses"]]
                 /\ Issue(r, [api |-> "Socials", variables |-> <<fid.id>>])
                 /\ UNCHANGED response
    /\ UNCHANGED <<Upstream, allOwnedTokens, replies>>

(* Address resolution answered: the loop starts with the first address. *)
OwnedTokens2Addresses(r) ==
    /\ req[r].route = "owned-tokens.v2"
    /\ req[r].pc = "addresses"
    /\ \E out \in Outcomes :
        LET res == getFarcasterAddressesFromFID(out, social)
        IN  /\ Got(r, "Socials", out, <<>>)
            /\ IF res.threw
               THEN /\ req' = [req EXCEPT ![r].pc = "done"]
                    /\ Respond(r, ErrorResponse(res.message))
                    /\ UNCHANGED <<calls, allOwnedTokens>>
               ELSE /\ req' = [req EXCEPT ![r].pc = "loopOwned", ![r].userAddresses = res.value,
                                          ![r].i = 1]
                    /\ allOwnedTokens' = [allOwnedTokens EXCEPT ![OwnedTokensScope(r)] = <<>>]
                    /\ Issue(r, OwnedQuery(res.value[1]))
                    /\ UNCHANGED response
    /\ UNCHANGED Upstream

(* The portfolio of the current address answered: it is appended, and the
   vesting contracts of the address are asked for. *)
OwnedTokens2Owned(r) ==
    /\ req[r].route = "owned-tokens.v2"
    /\ req[r].pc = "loopOwned"
    /\ \E out \in Outcomes :
        LET data   == IF out = "ok" THEN UsersWhereIdIn(Last(calls[r]).variables) ELSE <<>>
            tokens == getOwnedFanTokensOf(out, data)
        IN  /\ Got(r, "users", out, data)
            /\ allOwnedTokens' = [allOwnedTokens EXCEPT ![OwnedTokensScope(r)] =
                                    IF tokens.isNull THEN @ ELSE @ \o tokens.list]
            /\ req' = [req EXCEPT ![r].pc = "loopVesting", ![r].fetched = tokens]
            /\ Issue(r, [api |-> "tokenLockWallets",
                         variables |-> <<toLowerCase(req[r].userAddresses[req[r].i])>>])
    /\ UNCHANGED <<Upstream, response>>

(* The vesting contracts of the current address answered (a failure is caught
   inside the loop): the next address, or after the last one the empty state
   or the holding at the cursor. *)
OwnedTokens2Vesting(r) ==
    /\ req[r].route = "owned-tokens.v2"
    /\ req[r].pc = "loopVesting"
    /\ \E out \in Outcomes :
        LET res  == getVestingContractAddresses(out,
                        LockWalletsWhereBeneficiaryIn(Last(calls[r]).variables))
            vest == IF res.threw THEN req[r].allVestingAddresses
                    ELSE req[r].allVestingAddresses \o res.value
            list == allOwnedTokens[OwnedTokensScope(r)]
            idx  == req[r].currentIndex
            me   == [req[r] EXCEPT !.allVestingAddresses = vest]
        IN  /\ Got(r, "tokenLockWallets", out, <<>>)
            /\ IF req[r].i < Len(req[r].userAddresses)
               THEN /\ req' = [req EXCEPT ![r] = [me EXCEPT !.pc = "loopOwned", !.i = @ + 1]]
                    /\ Issue(r, OwnedQuery(req[r].userAddresses[req[r].i + 1]))
                    /\ UNCHANGED response
               ELSE IF list = <<>>
               THEN /\ req' = [req EXCEPT ![r] = [me EXCEPT !.pc = "done"]]
                    /\ Respond(r, NoTokensResponse)
                    /\ UNCHANGED calls
               ELSE IF ~InList(list, idx)
               THEN /\ req' = [req EXCEPT ![r] = [me EXCEPT !.pc = "done"]]
                    /\ Respond(r, ErrorResponse("TypeError"))
                    /\ UNCHANGED calls
               ELSE LET token == list[idx.v + 1]
                    IN  IF StartsWithFid(token.subjectToken.symbol)
                        THEN /\ req' = [req EXCEPT ![r] =
                                          [me EXCEPT !.pc = "tokenProfile", !.token = token]]
                             /\ Issue(r, [api |-> "GetProfileInfo",
                                          variables |-> <<SplitColon(token.subjectToken.symbol, <<>>)[2]>>])
                             /\ UNCHANGED response
                        ELSE /\ req' = [req EXCEPT ![r] = [me EXCEPT !.pc = "done", !.token = token]]
                             /\ Respond(r, HoldingView2(req[r].fid, list, idx.v, token, NullProfile))
                             /\ UNCHANGED calls
    /\ UNCHANGED <<Upstream, allOwnedTokens>>

OwnedTokens2Profile(r) ==
    /\ req[r].route = "owned-tokens.v2"
    /\ req[r].pc = "tokenProfile"
    /\ \E out \in Outcomes, data \in ProfileData :
        /\ Got(r, "GetProfileInfo", out, <<>>)
        /\ req' = [req EXCEPT ![r].pc = "done", ![r].profile = getProfileInfo(out, data)]
        /\ Respond(r, HoldingView2(req[r].fid, allOwnedTokens[OwnedTokensScope(r)],
                                   req[r].currentIndex.v, req[r].token,
                                   getProfileInfo(out, data)))
    /\ UNCHANGED <<Upstream, allOwnedTokens, calls>>

-----------------------------------------------------------------------------
(* /check of src/api/index.tsx (the first module of the file) *)

(* getFanTokenInfo(fid), on fetch: a non-success status and GraphQL errors
   are thrown and caught inside; the result is the auction list or []. *)
getFanTokenInfoAuctions(out, data) ==
    IF out = "http" THEN <<>>
    ELSE IF out = "graphql" THEN <<>>
    ELSE data

(* The response of a handler that threw. *)
Exception(msg) == [kind |-> "exception", message |-> msg, buttons |-> <<>>]

CheckReceive(r) ==
    /\ r \in active
    /\ req[r].pc = "idle"
    /\ \E fid \in Fids :
        LET me == [req[r] EXCEPT !.route = "check", !.fid = fid]
        IN  IF MissingFid(fid)
            THEN /\ req' = [req EXCEPT ![r] = [me EXCEPT !.pc = "done"]]
                 /\ Respond(r, NoFidResponse("Back"))
                 /\ UNCHANGED calls
            ELSE /\ req' = [req EXCEPT ![r] = [me EXCEPT !.pc = "auctions"]]
                 /\ Issue(r, [api |-> "FarcasterFanTokenAuctions", variables |-> <<fid.id>>])
                 /\ UNCHANGED response
    /\ UNCHANGED <<Upstream, allOwnedTokens, replies>>

(* The auctions answered: the list (the first three tokens, each with its
   reward distribution), or "No fan tokens found". *)
CheckAuctions(r) ==
    /\ req[r].route = "check"
    /\ req[r].pc = "auctions"
    /\ \E out \in Outcomes, data \in AuctionData :
        LET fanTokens    == getFanTokenInfoAuctions(out, data)
            errorMessage == ""
            shown        == SubSeq(fanTokens, 1, IF Len(fanTokens) < 3 THEN Len(fanTokens) ELSE 3)
            buttons      == <<Button("Back", "/"), Button("Refresh", "/check")>>
        IN  /\ Got(r, "FarcasterFanTokenAuctions", out, <<>>)
            /\ req' = [req EXCEPT ![r].pc = "done"]
            /\ Respond(r,
                 IF errorMessage # "" THEN [kind |-> "checkError", message |-> errorMessage,
                                            buttons |-> buttons]
                 ELSE IF fanTokens # <<>>
                 THEN IF \E k \in DOMAIN shown : ~shown[k].hasRewardDistribution
                      THEN Exception("TypeError")
                      ELSE [kind |-> "checkList", tokens |-> shown, buttons |-> buttons]
                 ELSE [kind |-> "checkEmpty", buttons |-> buttons])
    /\ UNCHANGED <<Upstream, allOwnedTokens, calls>>

-----------------------------------------------------------------------------
(* /profile of src/unnamed/part_000 *)

(* getProfileInfo(fid), on fetch: null on failure and when Wallet is null
   (reading wallet.primaryDomain throws inside the try); else the first
   Social entry, undefined when the list is empty. *)
getProfileInfoFetch(out, data) ==
    IF out # "ok" THEN [isNull |-> TRUE, farcasterSocial |-> <<>>]
    ELSE IF ~data.Wallet THEN [isNull |-> TRUE, farcasterSocial |-> <<>>]
    ELSE [isNull |-> FALSE, farcasterSocial |-> data.Social]

ProfileReceive(r) ==
    /\ r \in active
    /\ req[r].pc = "idle"
    /\ \E fid \in Fids :
        LET me == [req[r] EXCEPT !.route = "profile", !.fid = fid]
        IN  IF MissingFid(fid)
            THEN /\ req' = [req EXCEPT ![r] = [me EXCEPT !.pc = "done"]]
                 /\ Respond(r, NoFidResponse("Back"))
                 /\ UNCHANGED calls
            ELSE /\ req' = [req EXCEPT ![r] = [me EXCEPT !.pc = "profileInfo"]]
                 /\ Issue(r, [api |-> "GetProfileInfo", variables |-> <<fid.id>>])
                 /\ UNCHANGED response
    /\ UNCHANGED <<Upstream, allOwnedTokens, replies>>

(* The profile answered: the view reads the fields of farcasterSocial, and
   farScore of farcasterScore, whenever profileInfo is not null. *)
ProfileInfo(r) ==
    /\ req[r].route = "profile"
    /\ req[r].pc = "profileInfo"
    /\ \E out \in Outcomes, data \in ProfileData :
        LET profileInfo == getProfileInfoFetch(out, data)
            buttons     == <<Button("Your Fan Token", "/yourfantoken")>>
        IN  /\ Got(r, "GetProfileInfo", out, <<>>)
            /\ req' = [req EXCEPT ![r].pc = "done"]
            /\ Respond(r,
                 IF profileInfo.isNull
                 THEN [kind |-> "profile", name |-> "Unknown", buttons |-> buttons]
                 ELSE IF profileInfo.farcasterSocial = <<>>
                 THEN Exception("TypeError")
                 ELSE IF ~profileInfo.farcasterSocial[1].hasScore
                 THEN Exception("TypeError")
                 ELSE [kind |-> "profile",
                       name |-> profileInfo.farcasterSocial[1].profileDisplayName,
                       buttons |-> buttons])
    /\ UNCHANGED <<Upstream, allOwnedTokens, calls>>

-----------------------------------------------------------------------------
(* /share of src/api/index.tsx: token address, token, profile, powerboost *)

(* getFanTokenAddressFromFID: the first token, or null; null on failure. *)
getFanTokenAddressFromFID(out, data) ==
    IF out = "ok" /\ data # <<>> THEN [isNull |-> FALSE, address |-> data[1].address]
    ELSE [isNull |-> TRUE, address |-> <<>>]

(* getFanTokenInfo, its second request: the first token, or null. *)
getFanTokenInfo(out, data) ==
    IF out = "ok" /\ data # <<>>
    THEN [isNull |-> FALSE, name |-> data[1].name, symbol |-> data[1].symbol,
          price |-> data[1].currentPriceInMoxie, holders |-> data[1].holders]
    ELSE NullTokenInfo

NullScore == [isNull |-> TRUE, v |-> 0]

(* getPowerboostScore: the score when it is truthy, else null. *)
getPowerboostScore(out, data) ==
    IF out = "ok" /\ data.has /\ data.v # 0 THEN [isNull |-> FALSE, v |-> data.v] ELSE NullScore

(* n.toFixed(2) of a whole number *)
toFixed2(n) == toString(n) \o <<".", "0", "0">>

ShareView(tokenInfo, profile, score) ==
    [kind |-> "share",
     currentPrice |-> IF tokenInfo.isNull THEN NA ELSE toFixed2(parseFloat(tokenInfo.price).v),
     holders |-> IF tokenInfo.isNull THEN NA ELSE toString(tokenInfo.holders),
     powerboost |-> IF score.isNull THEN NA ELSE toFixed2(score.v),
     buttons |-> <<Button("Check Your Fan Token", "/yourfantoken")>>]

(* The view of /yourfantoken: the same three values, four buttons. *)
YourFanTokenView(fid, tokenInfo, profile, score) ==
    [kind |-> "yourfantoken",
     currentPrice |-> IF tokenInfo.isNull THEN NA ELSE toFixed2(parseFloat(tokenInfo.price).v),
     holders |-> IF tokenInfo.isNull THEN NA ELSE toString(tokenInfo.holders),
     powerboost |-> IF score.isNull THEN NA ELSE toFixed2(score.v),
     buttons |-> <<Button("Back", "/"), Button("Refresh", "/yourfantoken"),
                   Button("Owned", "/owned-tokens"),
                   [label |-> "Share", action |-> "share", value |-> fid.id]>>]

(* The routes that run getFanTokenInfo, getProfileInfo, getPowerboostScore. *)
TokenRoutes == {"share", "yourfantoken"}

ProfileQuery(id) == [api |-> "GetProfileInfo", variables |-> <<id>>]

YourFanTokenReceive(r) ==
    /\ r \in active
    /\ req[r].pc = "idle"
    /\ \E fid \in Fids :
        LET me == [req[r] EXCEPT !.route = "yourfantoken", !.fid = fid]
        IN  IF MissingFid(fid)
            THEN /\ req' = [req EXCEPT ![r] = [me EXCEPT !.pc = "done"]]
                 /\ Respond(r, NoFidResponse("Back"))
                 /\ UNCHANGED calls
            ELSE /\ req' = [req EXCEPT ![r] = [me EXCEPT !.pc = "shareAddress"]]
                 /\ Issue(r, [api |-> "subjectTokens.symbol",
                              variables |-> <<<<"f", "i", "d", ":">> \o fid.id>>])
                 /\ UNCHANGED response
    /\ UNCHANGED <<Upstream, allOwnedTokens, replies>>

ShareReceive(r) ==
    /\ r \in active
    /\ req[r].pc = "idle"
    /\ \E fid \in Fids :
        LET me == [req[r] EXCEPT !.route = "share", !.fid = fid]
        IN  IF MissingFid(fid)
            THEN /\ req' = [req EXCEPT ![r] = [me EXCEPT !.pc = "done"]]
                 /\ Respond(r, NoFidResponse("Home"))
                 /\ UNCHANGED calls
            ELSE /\ req' = [req EXCEPT ![r] = [me EXCEPT !.pc = "shareAddress"]]
                 /\ Issue(r, [api |-> "subjectTokens.symbol",
                              variables |-> <<<<"f", "i", "d", ":">> \o fid.id>>])
                 /\ UNCHANGED response
    /\ UNCHANGED <<Upstream, allOwnedTokens, replies>>

(* The token address answered: without one getFanTokenInfo returns null and
   the profile is asked for, else the token is asked for by its id. *)
ShareAddress(r) ==
    /\ req[r].route \in TokenRoutes
    /\ req[r].pc = "shareAddress"
    /\ \E out \in Outcomes, data \in TokenAddressData :
        LET a == getFanTokenAddressFromFID(out, data)
        IN  /\ Got(r, "subjectTokens.symbol", out, <<>>)
            /\ IF a.isNull
               THEN /\ req' = [req EXCEPT ![r].pc = "shareProfile"]
                    /\ Issue(r, ProfileQuery(req[r].fid.id))
               ELSE /\ req' = [req EXCEPT ![r].pc = "shareToken"]
                    /\ Issue(r, [api |-> "subjectTokens.id",
                                 variables |-> <<toLowerCase(a.address)>>])
    /\ UNCHANGED <<Upstream, allOwnedTokens, response>>

ShareToken(r) ==
    /\ req[r].route \in TokenRoutes
    /\ req[r].pc = "shareToken"
    /\ \E out \in Outcomes, data \in TokenInfoData :
        /\ Got(r, "subjectTokens.id", out, <<>>)
        /\ req' = [req EXCEPT ![r].pc = "shareProfile", ![r].tokenInfo = getFanTokenInfo(out, data)]
        /\ Issue(r, ProfileQuery(req[r].fid.id))
    /\ UNCHANGED <<Upstream, allOwnedTokens, response>>

ShareProfile(r) ==
    /\ req[r].route \in TokenRoutes
    /\ req[r].pc = "shareProfile"
    /\ \E out \in Outcomes, data \in ProfileData :
        /\ Got(r, "GetProfileInfo", out, <<>>)
        /\ req' = [req EXCEPT ![r].pc = "sharePowerboost", ![r].profile = getProfileInfo(out, data)]
        /\ Issue(r, [api |-> "Socials.powerBoost", variables |-> <<req[r].fid.id>>])
    /\ UNCHANGED <<Upstream, allOwnedTokens, response>>

SharePowerboost(r) ==
    /\ req[r].route \in TokenRoutes
    /\ req[r].pc = "sharePowerboost"
    /\ \E out \in Outcomes, data \in PowerBoostData :
        /\ Got(r, "Socials.powerBoost", out, IF out = "ok" THEN <<data>> ELSE <<>>)
        /\ req' = [req EXCEPT ![r].pc = "done"]
        /\ Respond(r, IF req[r].route = "share"
                       THEN ShareView(req[r].tokenInfo, req[r].profile,
                                      getPowerboostScore(out, data))
                       ELSE YourFanTokenView(req[r].fid, req[r].tokenInfo, req[r].profile,
                                             getPowerboostScore(out, data)))
    /\ UNCHANGED <<Upstream, allOwnedTokens, calls>>

-----------------------------------------------------------------------------
(* /share-owned of src/unnamed/part_002: the holding comes in the query *)

(* The query parameters: the token address, the balance, and the other two
   amounts (present or not together). *)
ShareQueries ==
    { [tokenAddress |-> t, balance |-> b, buyVolume |-> x, currentPrice |-> x] :
        t \in {NoValue, Value(ABu), Value(Undefined)},
        b \in {NoValue, Value(<<"1", "0">>), Value(<<"x">>)},
        x \in {NoValue, Value(<<"3">>)} }

(* `!v` of a query parameter: absent or empty. *)
Falsy(v) == ~v.has \/ v.s = <<>>

(* symbol.match(/^fid:(\d+)$/): the digits after fid:, or no match. *)
FidOfSymbol(sym) ==
    IF /\ Len(sym) >= 5
       /\ SubSeq(sym, 1, 4) = <<"f", "i", "d", ":">>
       /\ \A k \in 5..Len(sym) : sym[k] \in Digits
    THEN [has |-> TRUE, id |-> SubSeq(sym, 5, Len(sym))]
    ELSE NoFid

(* getTokenInfo: the first token, or null; null on failure. *)
getTokenInfo(out, data) ==
    IF out = "ok" /\ data # <<>>
    THEN [isNull |-> FALSE, name |-> data[1].name, symbol |-> data[1].symbol,
          price |-> data[1].currentPriceInMoxie, holders |-> data[1].holders]
    ELSE NullTokenInfo

MissingInfoResponse == [kind |-> "missingInfo", buttons |-> <<Button("Home", "/")>>]

(* The view: the name found for the token, and the amounts of the query
   string formatted; BigInt throws into the catch block. *)
ShareOwnedView2(query, tokenName) ==
    LET tokenBalance == formatBalance(query.balance.s, DefaultDecimals)
        buyVolume    == formatBalance(query.buyVolume.s, DefaultDecimals)
    IN  IF tokenBalance.threw \/ buyVolume.threw THEN ErrorResponse("SyntaxError")
        ELSE [kind |-> "shareOwned", tokenName |-> tokenName,
              tokenBalance |-> tokenBalance.value,
              buyVolume |-> buyVolume.value,
              currentPrice |-> formatNumberShare(query.currentPrice),
              buttons |-> <<Button("Check Your Owned Tokens", "/owned-tokens")>>]

(* The handler up to its first await; getTokenInfo returns null at once for
   the address 'undefined'. *)
ShareOwned2Begin(r, fid, q) ==
    LET me == [IdleReq EXCEPT !.route = "share-owned.v2", !.fid = fid, !.query = q]
    IN  /\ IF \/ MissingFid(fid) \/ Falsy(q.tokenAddress) \/ Falsy(q.balance)
              \/ Falsy(q.buyVolume) \/ Falsy(q.currentPrice)
           THEN /\ req' = [req EXCEPT ![r] = [me EXCEPT !.pc = "done"]]
                /\ Respond(r, MissingInfoResponse)
                /\ UNCHANGED calls
           ELSE IF q.tokenAddress.s = Undefined
           THEN /\ req' = [req EXCEPT ![r] = [me EXCEPT !.pc = "done"]]
                /\ Respond(r, ShareOwnedView2(q, "Unknown Token"))
                /\ UNCHANGED calls
           ELSE /\ req' = [req EXCEPT ![r] = [me EXCEPT !.pc = "shareOwnedToken"]]
                /\ Issue(r, [api |-> "subjectTokens.id",
                             variables |-> <<toLowerCase(q.tokenAddress.s)>>])
                /\ UNCHANGED response
        /\ UNCHANGED <<allOwnedTokens, replies>>

(* A request to /share-owned arrives, with any query string. *)
ShareOwned2Receive(r) ==
    /\ r \in active
    /\ req[r].pc = "idle"
    /\ \E fid \in Fids, q \in ShareQueries : ShareOwned2Begin(r, fid, q)
    /\ UNCHANGED Upstream

(* The token answered: the profile of a fid: token is asked for, else the
   view carries the token's name, or 'Unknown Token' without a token. *)
ShareOwned2Token(r) ==
    /\ req[r].route = "share-owned.v2"
    /\ req[r].pc = "shareOwnedToken"
    /\ \E out \in Outcomes, data \in TokenInfoData :
        LET tokenInfo == getTokenInfo(out, data)
            fid       == FidOfSymbol(tokenInfo.symbol)
        IN  /\ Got(r, "subjectTokens.id", out, <<>>)
            /\ IF ~tokenInfo.isNull /\ fid.has
               THEN /\ req' = [req EXCEPT ![r].pc = "shareOwnedProfile", ![r].tokenInfo = tokenInfo]
                    /\ Issue(r, ProfileQuery(fid.id))
                    /\ UNCHANGED response
               ELSE /\ req' = [req EXCEPT ![r].pc = "done", ![r].tokenInfo = tokenInfo]
                    /\ Respond(r, ShareOwnedView2(req[r].query,
                                    IF tokenInfo.isNull THEN "Unknown Token" ELSE tokenInfo.name))
                    /\ UNCHANGED calls
    /\ UNCHANGED <<Upstream, allOwnedTokens>>

ShareOwned2Profile(r) ==
    /\ req[r].route = "share-owned.v2"
    /\ req[r].pc = "shareOwnedProfile"
    /\ \E out \in Outcomes, data \in ProfileData :
        LET profile == getProfileInfo(out, data)
        IN  /\ Got(r, "GetProfileInfo", out, <<>>)
            /\ req' = [req EXCEPT ![r].pc = "done", ![r].profile = profile]
            /\ Respond(r, ShareOwnedView2(req[r].query,
                            IF ~profile.isNull /\ profile.profileDisplayName # ""
                            THEN profile.profileDisplayName ELSE req[r].tokenInfo.name))
    /\ UNCHANGED <<Upstream, allOwnedTokens, calls>>

-----------------------------------------------------------------------------

Next ==
    \E r \in Reqs :
        \/ OwnedTokensReceive(r)
        \/ OwnedTokensAddresses(r)
        \/ OwnedTokensVesting(r)
        \/ OwnedTokensPortfolio(r)
        \/ OwnedTokensProfile(r)
        \/ OwnedTokens2Receive(r)
        \/ OwnedTokens2Addresses(r)
        \/ OwnedTokens2Owned(r)
        \/ OwnedTokens2Vesting(r)
        \/ OwnedTokens2Profile(r)
        \/ CheckReceive(r)
        \/ CheckAuctions(r)
        \/ ProfileReceive(r)
        \/ ProfileInfo(r)
        \/ ShareReceive(r)
        \/ YourFanTokenReceive(r)
        \/ ShareAddress(r)
        \/ ShareToken(r)
        \/ ShareProfile(r)
        \/ SharePowerboost(r)
        \/ ShareOwned2Receive(r)
        \/ ShareOwned2Token(r)
        \/ ShareOwned2Profile(r)
        \/ ShareOwnedReceive(r)
        \/ ShareOwnedPortfolio(r)
        \/ ShareOwnedProfile(r)

Spec == Init /\ [][Next]_vars

(* Two requests to /owned-tokens, of either variant, served interleaved. *)
InitConc ==
    /\ users = [id \in {AB, CD} |-> IF id = AB THEN User(<<H9, H3>>) ELSE User(<<H10>>)]
    /\ social = Social(AB, <<>>)
    /\ lockWallets = [id \in {AB, CD} |-> IF id = AB THEN <<CD>> ELSE <<>>]
    /\ active = Reqs
    /\ hung = {}
    /\ session = <<>>
    /\ req = [r \in Reqs |-> IdleReq]
    /\ allOwnedTokens = [r \in Reqs |-> <<>>]
    /\ calls = [r \in Reqs |-> <<>>]
    /\ replies = [r \in Reqs |-> <<>>]
    /\ response = [r \in Reqs |-> NoResponse]

NextConc ==
    \E r \in Reqs :
        \/ OwnedTokensReceive(r)
        \/ OwnedTokensAddresses(r)
        \/ OwnedTokensVesting(r)
        \/ OwnedTokensPortfolio(r)
        \/ OwnedTokensProfile(r)
        \/ OwnedTokens2Receive(r)
        \/ OwnedTokens2Addresses(r)
        \/ OwnedTokens2Owned(r)
        \/ OwnedTokens2Vesting(r)
        \/ OwnedTokens2Profile(r)

SpecConc == InitConc /\ [][NextConc]_vars

(* The holdings of an address change upstream. *)
UsersChange ==
    /\ users[AB] # User(<<H10>>)
    /\ users' = [users EXCEPT ![AB] = User(<<H10>>)]
    /\ UNCHANGED <<social, lockWallets, active, hung, session, req, allOwnedTokens, calls,
                   replies, response>>

NextFresh ==
    \/ UsersChange
    \/ \E r \in Reqs :
          \/ OwnedTokensReceive(r)
          \/ OwnedTokensAddresses(r)
          \/ OwnedTokensVesting(r)
          \/ OwnedTokensPortfolio(r)
          \/ OwnedTokensProfile(r)

(* Two requests to /owned-tokens while the upstream data change. *)
SpecFresh == InitConc /\ [][NextFresh]_vars

-----------------------------------------------------------------------------
(* The portfolio fetch called on its own: getOwnedFanTokens of index.tsx
   (an address list), of part_002 and of part_003 (one address) *)

FetchVariants == {"fetch", "fetch.v2", "fetch.v3"}

AddressInputs == {<<AB>>, <<ABu>>, <<CD>>, <<ABu, CD>>}

(* variables of getOwnedFanTokens(userAddress), part_003: the address as is *)
OwnedQuery3(userAddress) == [api |-> "users", variables |-> <<userAddress>>]

(* getOwnedFanTokens of part_003: [] on failure and when no user comes back,
   else the portfolio of the first user, its amounts through parseFloat. *)
getOwnedFanTokens3(out, data) ==
    IF out # "ok" \/ data = <<>> THEN List(<<>>)
    ELSE List([i \in DOMAIN data[1].portfolio |->
                 LET token == data[1].portfolio[i]
                 IN  [name |-> token.subjectToken.name,
                      symbol |-> token.subjectToken.symbol,
                      balance |-> parseFloat(token.balance),
                      buyVolume |-> parseFloat(token.buyVolume),
                      sellVolume |-> parseFloat(token.sellVolume)]])

(* One call of the fetch, its argument drawn from AddressInputs. *)
InitFetch ==
    /\ users \in UsersStores
    /\ social = NoSocial
    /\ lockWallets = [id \in {AB, CD} |-> <<>>]
    /\ active = {}
    /\ hung = {}
    /\ session = <<>>
    /\ \E v \in FetchVariants, as \in AddressInputs :
          /\ v = "fetch" \/ Len(as) = 1
          /\ req = [r \in Reqs |->
                      IF r = "r1"
                      THEN [IdleReq EXCEPT !.route = v, !.userAddresses = as, !.pc = "fetchCall"]
                      ELSE IdleReq]
    /\ allOwnedTokens = [r \in Reqs |-> <<>>]
    /\ calls = [r \in Reqs |-> <<>>]
    /\ replies = [r \in Reqs |-> <<>>]
    /\ response = [r \in Reqs |-> NoResponse]

(* The fetch up to its await: the query variables are built and sent. *)
FetchCall(r) ==
    /\ req[r].route \in FetchVariants
    /\ req[r].pc = "fetchCall"
    /\ req' = [req EXCEPT ![r].pc = "fetchWait"]
    /\ Issue(r, IF req[r].route = "fetch" THEN OwnedQueryAll(req[r].userAddresses)
                ELSE IF req[r].route = "fetch.v2" THEN OwnedQuery(req[r].userAddresses[1])
                ELSE OwnedQuery3(req[r].userAddresses[1]))
    /\ UNCHANGED <<Upstream, allOwnedTokens, replies, response>>

(* The reply arrives and the fetch returns. *)
FetchReturn(r) ==
    /\ req[r].route \in FetchVariants
    /\ req[r].pc = "fetchWait"
    /\ \E out \in Outcomes :
        LET data == IF out = "ok" THEN UsersWhereIdIn(Last(calls[r]).variables) ELSE <<>>
        IN  /\ Got(r, "users", out, data)
            /\ req' = [req EXCEPT ![r].pc = "done",
                                  ![r].fetched =
                                      IF req[r].route = "fetch" THEN getOwnedFanTokens(out, data)
                                      ELSE IF req[r].route = "fetch.v2"
                                      THEN getOwnedFanTokensOf(out, data)
                                      ELSE getOwnedFanTokens3(out, data)]
    /\ UNCHANGED <<Upstream, allOwnedTokens, calls, response>>

NextFetch == \E r \in Reqs : FetchCall(r) \/ FetchReturn(r)

SpecFetch == InitFetch /\ [][NextFetch]_vars

-----------------------------------------------------------------------------
(* The formatters called on their own *)

FormatVariants == {"formatNumber", "formatNumber.share"}

(* Balances in wei: the digits of a number followed by a run of zeros. *)
Wei(digits, zeros) == digits \o Zeros(zeros)

BalanceValues ==
    { Value(Wei(d, z)) :
        d \in { <<"0">>, <<"1">>, <<"5">>, <<"3">>, <<"1", "2", "3", "4">>,
                <<"1", "2", "3", "6">>, <<"9", "9", "9", "9", "9", "6">>, <<"0", "0", "7">> },
        z \in {0, 9, 15, 16, 18, 21, 36, 39} }
    \cup { Value(<<>>), Value(<<"a", "b", "c">>), Value(<<"1", ".", "5">>), Value(<<"-", "1">>) }

WholeParts ==
    { <<"0">>, <<"7">>, <<"9", "9", "9">>, <<"1", "0", "0", "0">>, <<"1", "5", "0", "0">>,
      <<"9", "9", "9", "9", "9", "9">>, <<"1", "0", "0", "0", "0", "0", "0">>,
      <<"2", "5", "0", "0", "0", "0", "0">>,
      <<"9", "9", "9", "9", "9", "9", "9", "9", "9">>,
      <<"1", "0", "0", "0", "0", "0", "0", "0", "0", "0">>,
      <<"2", "0", "0", "0", "0", "0", "0", "0", "0", "0">> }

FractionParts == { <<>>, <<".", "5">>, <<".", "2", "5", "1">>, <<".", "9", "9", "6">> }

SmallPrices ==
    { <<"0", ".", "0", "0", "5">>, <<"0", ".", "0", "0", "1", "2">>,
      <<"0", ".", "0", "0", "9", "9", "9", "9">>, <<"0", ".", "0", "0", "0", "0", "0", "1">>,
      <<"0", ".", "0", "1">> }

(* The values the formatter is called with: a price as the indexer or the
   share link carries it, with or without a sign; not a number; none. *)
PriceValues ==
    {NoValue}
    \cup { Value(sign \o w \o f) : sign \in {<<>>, <<"-">>}, w \in WholeParts, f \in FractionParts }
    \cup { Value(sign \o t) : sign \in {<<>>, <<"-">>}, t \in SmallPrices }
    \cup { Value(<<>>), Value(<<"a", "b", "c">>) }

InitFormat ==
    /\ users = [id \in Range(IdOrder) |-> NoUser]
    /\ social = NoSocial
    /\ lockWallets = [id \in Range(IdOrder) |-> <<>>]
    /\ active = {}
    /\ hung = {}
    /\ session = <<>>
    /\ \E v \in FormatVariants \cup {"formatBalance"}, value \in PriceValues \cup BalanceValues :
          /\ IF v = "formatBalance" THEN value \in BalanceValues ELSE value \in PriceValues
          /\ v = "formatNumber" \/ value.has
          /\ req = [r \in Reqs |->
                      IF r = "r1"
                      THEN [IdleReq EXCEPT !.route = v, !.buttonValue = value, !.pc = "format"]
                      ELSE IdleReq]
    /\ allOwnedTokens = [r \in Reqs |-> <<>>]
    /\ calls = [r \in Reqs |-> <<>>]
    /\ replies = [r \in Reqs |-> <<>>]
    /\ response = [r \in Reqs |-> NoResponse]

(* One call of the formatter; the text it returns is what is rendered. *)
FormatNumber(r) ==
    /\ req[r].route \in FormatVariants
    /\ req[r].pc = "format"
    /\ req' = [req EXCEPT ![r].pc = "done"]
    /\ Respond(r, [kind |-> "text",
                   text |-> IF req[r].route = "formatNumber"
                            THEN formatNumber(req[r].buttonValue)
                            ELSE formatNumberShare(req[r].buttonValue)])
    /\ UNCHANGED <<Upstream, allOwnedTokens, calls, replies>>

(* One call of formatBalance with the default decimals, as every call site
   has it; an exception leaves the handler through its catch. *)
FormatBalance(r) ==
    /\ req[r].route = "formatBalance"
    /\ req[r].pc = "format"
    /\ req' = [req EXCEPT ![r].pc = "done"]
    /\ LET res == formatBalance(req[r].buttonValue.s, DefaultDecimals)
       IN  Respond(r, IF res.threw THEN ErrorResponse(res.message)
                      ELSE [kind |-> "text", text |-> res.value])
    /\ UNCHANGED <<Upstream, allOwnedTokens, calls, replies>>

NextFormat == \E r \in Reqs : FormatNumber(r) \/ FormatBalance(r)

SpecFormat == InitFormat /\ [][NextFormat]_vars

-----------------------------------------------------------------------------
(* A client session on /owned-tokens: the frame is opened, and on a holding
   view the client presses Next or Previous, which sends the value of the
   pressed button back as c.buttonValue. *)

(* The number of button presses of a session. *)
MaxPresses == 2

InitWalk ==
    /\ users \in UsersStores
    /\ social = Social(AB, <<>>)
    /\ lockWallets = [id \in Range(IdOrder) |-> IF id = AB THEN <<CD>> ELSE <<>>]
    /\ active = {"r1"}
    /\ hung = {}
    /\ session = <<>>
    /\ req = [r \in Reqs |-> IdleReq]
    /\ allOwnedTokens = [r \in Reqs |-> <<>>]
    /\ calls = [r \in Reqs |-> <<>>]
    /\ replies = [r \in Reqs |-> <<>>]
    /\ response = [r \in Reqs |-> NoResponse]

(* The client presses Next or Previous of the view it has: a new activation
   of the handler, run up to its first await. *)
Press(r) ==
    /\ req[r].route = "owned-tokens"
    /\ req[r].pc = "done"
    /\ response[r].kind = "holding"
    /\ Len(session) < MaxPresses
    /\ \E k \in DOMAIN response[r].buttons :
          /\ response[r].buttons[k].label \in {"Next", "Previous"}
          /\ session' = Append(session, [cursor |-> req[r].buttonValue,
                                         view |-> response[r],
                                         pressed |-> response[r].buttons[k].label])
          /\ OwnedTokensBegin(r, req[r].fid, Value(response[r].buttons[k].value))
    /\ UNCHANGED <<users, social, lockWallets, active, hung>>

NextWalk ==
    \E r \in Reqs :
        \/ OwnedTokensReceive(r)
        \/ OwnedTokensAddresses(r)
        \/ OwnedTokensVesting(r)
        \/ OwnedTokensPortfolio(r)
        \/ OwnedTokensProfile(r)
        \/ Press(r)

SpecWalk == InitWalk /\ [][NextWalk]_vars

-----------------------------------------------------------------------------
(* A share link opened: /owned-tokens renders a holding, and the client opens
   the Share link of that view on /share-owned; the upstream data stay as
   they are. *)

(* The query string of the link of src/api/index.tsx taken apart:
   fid=...&tokenIndex=... *)
RECURSIVE BeforeAmp(_)
BeforeAmp(s) == IF s = <<>> \/ Head(s) = "&" THEN <<>> ELSE <<Head(s)>> \o BeforeAmp(Tail(s))

RECURSIVE AfterAmp(_)
AfterAmp(s) == IF s = <<>> THEN <<>> ELSE IF Head(s) = "&" THEN Tail(s) ELSE AfterAmp(Tail(s))

(* The client opens the Share link of the holding view it has: a request to
   /share-owned of the same file, with the query string of the link. *)
OpenShare(r) ==
    /\ req[r].route \in {"owned-tokens", "owned-tokens.v2"}
    /\ req[r].pc = "done"
    /\ response[r].kind = "holding"
    /\ session = <<>>
    /\ \E k \in DOMAIN response[r].buttons :
          LET link == response[r].buttons[k]
          IN  /\ link.label = "Share"
              /\ session' = <<[cursor |-> req[r].buttonValue, view |-> response[r],
                               pressed |-> "Share", profile |-> req[r].profile,
                               replies |-> Len(replies[r])]>>
              /\ IF req[r].route = "owned-tokens"
                 THEN ShareOwnedBegin(r, [has |-> TRUE, id |-> BeforeAmp(link.value)],
                                      Value(AfterAmp(link.value)))
                 ELSE ShareOwned2Begin(r, [has |-> TRUE, id |-> link.value], link.query)
    /\ UNCHANGED <<users, social, lockWallets, active, hung>>

NextShare ==
    \E r \in Reqs :
        \/ OwnedTokensReceive(r)
        \/ OwnedTokensAddresses(r)
        \/ OwnedTokensVesting(r)
        \/ OwnedTokensPortfolio(r)
        \/ OwnedTokensProfile(r)
        \/ OwnedTokens2Receive(r)
        \/ OwnedTokens2Addresses(r)
        \/ OwnedTokens2Owned(r)
        \/ OwnedTokens2Vesting(r)
        \/ OwnedTokens2Profile(r)
        \/ ShareOwnedPortfolio(r)
        \/ ShareOwnedProfile(r)
        \/ OpenShare(r)

SpecShare == InitWalk /\ [][NextShare]_vars

(* An event loop that serves nobody while a call hangs. *)
ServedWhenNoneHangs(r) == hung = {}

(* The event loop resumes a handler when its own awaited call has returned:
   the call of a request in hung never returns. *)
Served(r) == r \notin hung

(* Two requests to /owned-tokens; the calls of the first never return. *)
InitHang ==
    /\ users = [id \in {AB, CD} |-> IF id = AB THEN User(<<H9, H3>>) ELSE User(<<H10>>)]
    /\ social = Social(AB, <<>>)
    /\ lockWallets = [id \in {AB, CD} |-> IF id = AB THEN <<CD>> ELSE <<>>]
    /\ active = Reqs
    /\ hung = {"r1"}
    /\ session = <<>>
    /\ req = [r \in Reqs |-> IdleReq]
    /\ allOwnedTokens = [r \in Reqs |-> <<>>]
    /\ calls = [r \in Reqs |-> <<>>]
    /\ replies = [r \in Reqs |-> <<>>]
    /\ response = [r \in Reqs |-> NoResponse]

(* The handler segments of /owned-tokens that run when a reply arrives. *)
Resume(r) ==
    \/ OwnedTokensAddresses(r)
    \/ OwnedTokensVesting(r)
    \/ OwnedTokensPortfolio(r)
    \/ OwnedTokensProfile(r)
    \/ OwnedTokens2Addresses(r)
    \/ OwnedTokens2Owned(r)
    \/ OwnedTokens2Vesting(r)
    \/ OwnedTokens2Profile(r)

NextHang ==
    \E r \in Reqs :
        \/ OwnedTokensReceive(r)
        \/ OwnedTokens2Receive(r)
        \/ Served(r) /\ Resume(r)

(* Every call that returns is followed by the handler segment awaiting it. *)
SpecHang ==
    /\ InitHang
    /\ [][NextHang]_vars
    /\ \A r \in Reqs : WF_vars(Served(r) /\ Resume(r))

-----------------------------------------------------------------------------
(* Vocabulary of the properties *)

Done(r) == req[r].pc = "done"

OwnedRoutes == {"owned-tokens", "owned-tokens.v2"}

PortfolioCalls(r) == SelectSeq(calls[r], LAMBDA q : q.api = "users")
PortfolioReplies(r) == SelectSeq(replies[r], LAMBDA a : a.api = "users")

(* The portfolio stage of request r is over: every portfolio query it issued
   is answered, and it issues no further one. *)
PortfolioOver(r) ==
    /\ req[r].route \in OwnedRoutes
    /\ PortfolioCalls(r) # <<>>
    /\ req[r].pc \in {"tokenProfile", "done"}

(* The lower-cased owner addresses request r asked portfolios for. *)
OwnerIds(r) == UNION {Range(q.variables) : q \in Range(PortfolioCalls(r))}

(* Everything upstream holds for a set of owner addresses, every page of it. *)
AllHoldings(ids) ==
    LET hit == SelectSeq(IdOrder, LAMBDA id : id \in ids /\ users[id].exists)
    IN  Flatten([i \in DOMAIN hit |-> users[hit[i]].portfolio])

SameHoldings(a, b) == \A h \in Range(a) \cup Range(b) : Count(a, h) = Count(b, h)

SortedDescending(l) ==
    \A i, j \in DOMAIN l : i < j => parseFloat(l[i].balance).v >= parseFloat(l[j].balance).v

-----------------------------------------------------------------------------
(* C1: when the upstream holdings of the owner-address set fill more than one
   page of PageSize holdings and the portfolio fetch succeeded, the list
   /owned-tokens works with holds exactly the holdings of all the pages. *)
C1_AllPagesReturned ==
    \A r \in Reqs :
        (/\ req[r].route = "owned-tokens"
         /\ PortfolioOver(r)
         /\ \A k \in DOMAIN PortfolioReplies(r) : PortfolioReplies(r)[k].outcome = "ok"
         /\ Len(AllHoldings(OwnerIds(r))) > PageSize)
        => SameHoldings(allOwnedTokens[r], AllHoldings(OwnerIds(r)))

(* C2: a non-empty list of holdings the route pages through is sorted
   descending by parseFloat of the balance. *)
C2_SortedDescending ==
    \A r \in Reqs :
        (PortfolioOver(r) /\ allOwnedTokens[r] # <<>>) => SortedDescending(allOwnedTokens[r])

(* C3: when a portfolio query of a request failed, the request ends with the
   error response, never with a view built from the rest. *)
C3_FailureGivesError ==
    \A r \in Reqs :
        (/\ PortfolioOver(r)
         /\ Done(r)
         /\ \E k \in DOMAIN PortfolioReplies(r) : PortfolioReplies(r)[k].outcome # "ok")
        => response[r].kind = "error"

(* C4: the aggregated list holds no holding more often than upstream holds it
   for the owner addresses asked for, whichever the letter case of the
   addresses and whether they are asked for together or one at a time. *)
C4_NoExtraCopies ==
    \A r \in Reqs :
        req[r].route \in OwnedRoutes =>
            \A h \in Range(allOwnedTokens[r]) :
                Count(allOwnedTokens[r], h) <= Count(AllHoldings(OwnerIds(r)), h)

(* C5: a successful aggregation issues one portfolio query per page up to and
   including the first page shorter than PageSize. *)
C5_QueriesUntilShortPage ==
    \A r \in Reqs :
        (/\ req[r].route = "owned-tokens"
         /\ PortfolioOver(r)
         /\ \A k \in DOMAIN PortfolioReplies(r) : PortfolioReplies(r)[k].outcome = "ok")
        => Len(PortfolioCalls(r)) = (Len(AllHoldings(OwnerIds(r))) \div PageSize) + 1

OneButtonTo(res, action) == Len(res.buttons) = 1 /\ res.buttons[1].action = action

(* C6 as stated: with zero holdings upstream for the whole owner-address set,
   the portfolio fetch returns the null sentinel and /owned-tokens answers
   "No fan tokens found" with one button. *)
C6_NullSentinel ==
    \A r \in Reqs :
        (/\ req[r].route = "owned-tokens"
         /\ PortfolioOver(r)
         /\ AllHoldings(OwnerIds(r)) = <<>>)
        => /\ req[r].fetched.isNull
           /\ response[r].kind = "noTokens"
           /\ OneButtonTo(response[r], "/")

(* C6, amended: with zero holdings upstream for the whole owner-address set,
   the portfolio fetch returns an empty result and no error (null when the
   reply holds no user, else a list that is empty), and /owned-tokens ends
   with the "No fan tokens found" response whose one button leads to '/'. *)
C6_EmptyResultNotError ==
    \A r \in Reqs :
        (PortfolioOver(r) /\ AllHoldings(OwnerIds(r)) = <<>>)
        => /\ OrEmpty(req[r].fetched) = <<>>
           /\ Last(PortfolioReplies(r)).users = <<>> => req[r].fetched.isNull
           /\ Done(r)
           /\ response[r].kind = "noTokens"
           /\ OneButtonTo(response[r], "/")

(* The case of C6: users without holdings came back, the fetch returned the
   empty list, and the route answered "No fan tokens found". *)
C6_Witness ==
    \E r \in Reqs :
        /\ req[r].route = "owned-tokens"
        /\ PortfolioOver(r)
        /\ AllHoldings(OwnerIds(r)) = <<>>
        /\ Last(PortfolioReplies(r)).outcome = "ok"
        /\ Last(PortfolioReplies(r)).users # <<>>
        /\ response[r].kind = "noTokens"

(* C7: when the upstream call of /check answers with a non-success status or
   with GraphQL errors, the route renders its error response, not the
   "No fan tokens found" of an empty result. *)
C7_FailureRendersError ==
    \A r \in Reqs :
        (/\ req[r].route = "check"
         /\ Done(r)
         /\ replies[r] # <<>>
         /\ replies[r][1].outcome # "ok")
        => response[r].kind = "checkError"

(* C8: no request ends with an exception escaping its handler. *)
C8_NoExceptionEscapes ==
    \A r \in Reqs : response[r].kind # "exception"

(* C9: a request without a user id has ended with a static error response
   whose only button leads to '/', and has issued no upstream call. *)
C9_NoFidStaticError ==
    \A r \in Reqs :
        (req[r].pc # "idle" /\ ~req[r].fid.has)
        => /\ Done(r)
           /\ response[r].kind \in {"noFid", "missingInfo"}
           /\ OneButtonTo(response[r], "/")
           /\ calls[r] = <<>>
           /\ replies[r] = <<>>

(* The case of C9: /share has answered a request without a user id. *)
C9_Witness ==
    \E r \in Reqs :
        /\ req[r].route = "share"
        /\ ~req[r].fid.has
        /\ Done(r)
        /\ response[r].kind = "noFid"

(* The list a request would work with alone, from the replies it got. *)
SoloList(r) ==
    LET pr == PortfolioReplies(r)
    IN  IF req[r].route = "owned-tokens"
        THEN OrEmpty(getOwnedFanTokens(Last(pr).outcome, Last(pr).users))
        ELSE Flatten([k \in DOMAIN pr |-> OrEmpty(getOwnedFanTokensOf(pr[k].outcome, pr[k].users))])

(* C10: the response of a finished /owned-tokens request is the one its own
   cursor and its own upstream replies produce, whatever another request did
   in between. *)
C10_ResponseFromOwnReplies ==
    \A r \in Reqs :
        (PortfolioOver(r) /\ Done(r))
        => LET l   == SoloList(r)
               idx == req[r].currentIndex
           IN  IF l = <<>> THEN response[r] = NoTokensResponse
               ELSE IF ~InList(l, idx) THEN response[r] = ErrorResponse("TypeError")
               ELSE /\ response[r].kind = "holding"
                    /\ response[r].index = idx.v
                    /\ response[r].total = Len(l)
                    /\ response[r].token = l[idx.v + 1]

(* The case of C10: two requests have both ended with a holding, each having
   got a portfolio reply while the other was suspended. *)
C10_Witness ==
    \A r \in Reqs :
        /\ PortfolioOver(r)
        /\ Done(r)
        /\ response[r].kind = "holding"
        /\ \E k \in DOMAIN PortfolioReplies(r) : PortfolioReplies(r)[k].overlap

(* C11: the upstream calls of a request form a chain: at most one of them is
   outstanding, call k is answered before call k+1 is issued, and the
   portfolio query of /owned-tokens comes after the replies to address
   resolution and to the vesting-contract lookup. *)
C11_SequentialChain ==
    \A r \in Reqs :
        /\ Len(calls[r]) - Len(replies[r]) \in {0, 1}
        /\ \A k \in DOMAIN replies[r] : replies[r][k].api = calls[r][k].api
        /\ \A k \in DOMAIN calls[r] :
              (req[r].route = "owned-tokens" /\ calls[r][k].api = "users")
              => /\ k = 3
                 /\ Len(replies[r]) >= 2
                 /\ replies[r][1].api = "Socials"
                 /\ replies[r][2].api = "tokenLockWallets"

(* The case of C11: /owned-tokens waits for its portfolio query, the two
   earlier calls answered. *)
C11_Witness ==
    \E r \in Reqs :
        /\ req[r].route = "owned-tokens"
        /\ req[r].pc = "portfolio"
        /\ Len(calls[r]) = 3
        /\ Len(replies[r]) = 2

(* C12: within one request no upstream query is issued twice with the same
   arguments, so none is issued again after it failed. *)
C12_NoQueryTwice ==
    \A r \in Reqs :
        \A i, j \in DOMAIN calls[r] : i < j => calls[r][i] # calls[r][j]

(* C13: a request waiting for an upstream call eventually has its response,
   unless it is its own call that hangs. *)
C13_OthersRespond ==
    \A r \in Reqs : InFlight(r) ~> (Done(r) \/ r \in hung)

(* The case of C13: a request has its holding view, having got its portfolio
   while the other one was suspended, and the other one's call hangs. *)
C13_Witness ==
    \E r, s \in Reqs :
        /\ r # s
        /\ s \in hung
        /\ InFlight(s)
        /\ Done(r)
        /\ response[r].kind = "holding"
        /\ \E k \in DOMAIN PortfolioReplies(r) : PortfolioReplies(r)[k].overlap

(* C14: a request that answers from a portfolio has issued its own portfolio
   query, and the list it works with is the one upstream holds for the
   addresses when the query is answered, not one an earlier request saw. *)
C14_FreshFetch ==
    /\ [](\A r \in Reqs :
            (req[r].route = "owned-tokens" /\ response[r].kind \in {"holding", "noTokens"})
            => PortfolioCalls(r) # <<>>)
    /\ [][\A r \in Reqs :
            (/\ req[r].route = "owned-tokens"
             /\ req[r].pc = "portfolio"
             /\ req'[r].pc # "portfolio"
             /\ Last(replies'[r]).outcome = "ok")
            => LET now == UsersPage(Last(calls[r]).variables, 0)
               IN  /\ Last(replies'[r]).users = now
                   /\ allOwnedTokens'[r] = Flatten([i \in DOMAIN now |-> now[i].portfolio])]_vars

(* The case of C14: two requests for the same user id have ended with
   holdings of lists of different lengths, the data having changed between. *)
C14_Witness ==
    /\ users[AB] = User(<<H10>>)
    /\ \A r \in Reqs : Done(r) /\ response[r].kind = "holding"
    /\ response["r1"].total # response["r2"].total

(* C15: every owner address in the variables of a portfolio query is the
   lower-case form of the address the fetch was given. *)
C15_LowerCased ==
    \A r \in Reqs :
        req[r].route \in FetchVariants =>
            \A k \in DOMAIN calls[r] :
                calls[r][k].variables =
                    [i \in DOMAIN req[r].userAddresses |-> toLowerCase(req[r].userAddresses[i])]

(* C16: once a request has finished its portfolio queries and its vesting
   lookups, every vesting contract a successful lookup found is among the
   owner addresses it asked portfolios for. *)
C16_VestingIncluded ==
    \A r \in Reqs :
        (req[r].route \in OwnedRoutes /\ Done(r)) =>
            \A k \in DOMAIN replies[r] :
                (replies[r][k].api = "tokenLockWallets" /\ replies[r][k].outcome = "ok")
                => \A w \in Range(LockWalletsWhereBeneficiaryIn(calls[r][k].variables)) :
                      toLowerCase(w.address) \in OwnerIds(r)

(* C17: a portfolio fetch that got a successful reply with users in it returns
   their holdings with balance, buyVolume, sellVolume and price exactly as the
   reply carried them, as decimal strings. *)
C17_FieldsAsProvided ==
    \A r \in Reqs :
        (/\ req[r].route \in FetchVariants
         /\ Done(r)
         /\ Last(replies[r]).outcome = "ok"
         /\ Last(replies[r]).users # <<>>)
        => /\ ~req[r].fetched.isNull
           /\ req[r].fetched.list =
                 IF req[r].route = "fetch"
                 THEN Flatten([i \in DOMAIN Last(replies[r]).users |->
                                  Last(replies[r]).users[i].portfolio])
                 ELSE Last(replies[r]).users[1].portfolio

ProfileCalls(r) == SelectSeq(calls[r], LAMBDA q : q.api = "GetProfileInfo")

(* C18: once /owned-tokens has selected the holding to show, it has issued one
   profile lookup, for the digits of the symbol, if the symbol is fid:<digits>;
   otherwise it has issued none and shows the token's own name. *)
C18_LookupIffFidDigits ==
    \A r \in Reqs :
        (req[r].route \in OwnedRoutes /\ req[r].token # NoToken) =>
            LET sym == req[r].token.subjectToken.symbol
                fid == FidOfSymbol(sym)
            IN  IF fid.has
                THEN ProfileCalls(r) = <<ProfileQuery(fid.id)>>
                ELSE /\ ProfileCalls(r) = <<>>
                     /\ Done(r) => response[r].tokenOwnerName = req[r].token.subjectToken.name

(* The number a finished formatter call was given, when it was given one. *)
Formatted(r) ==
    /\ req[r].route \in FormatVariants
    /\ Done(r)
    /\ req[r].buttonValue.has
    /\ ~parseFloatDec(req[r].buttonValue.s).nan
Given(r) == parseFloatDec(req[r].buttonValue.s)
Below(num, n) == num.neg \/ num.int < n
Scaled(num, d, suffix) == toFixed(DivideBy(num, d)) \o suffix
RendersAs(s, text) == \A r \in Reqs : (Formatted(r) /\ req[r].buttonValue.s = s) => response[r].text = text

(* d.dd...e-k with the given number of digits after the point *)
Scientific(text, places) ==
    /\ Len(text) >= places + 5
    /\ text[1] \in Digits
    /\ text[2] = "."
    /\ \A k \in 3..(places + 2) : text[k] \in Digits
    /\ text[places + 3] = "e"
    /\ text[places + 4] = "-"
    /\ \A k \in (places + 5)..Len(text) : text[k] \in Digits

FixedTwo(text) ==
    /\ Len(text) >= 4
    /\ text[Len(text) - 2] = "."
    /\ \A k \in DOMAIN text :
          k # Len(text) - 2 => (text[k] \in Digits \/ (k = 1 /\ text[k] = "-"))

(* C19, as stated: every value below 1e3 is rendered with fixed 2 decimals and
   no suffix, a value from 1e3 as value/1e3 with K, from 1e6 as value/1e6 with
   M, from 1e9 as value/1e9 with B. *)
C19_ThresholdsAsStated ==
    \A r \in Reqs :
        Formatted(r) =>
            response[r].text =
                IF Below(Given(r), 1000) THEN toFixed(Given(r))
                ELSE IF Below(Given(r), 1000000) THEN Scaled(Given(r), 1000, <<"K">>)
                ELSE IF Below(Given(r), 1000000000) THEN Scaled(Given(r), 1000000, <<"M">>)
                ELSE Scaled(Given(r), 1000000000, <<"B">>)

(* C19, amended: the same thresholds, for every value that is not strictly
   between 0 and 0.01; 999 gives "999.00", 1000 gives "1.00K", 1000000 gives
   "1.00M" and 0 gives "0.00". *)
C19_Thresholds ==
    /\ \A r \in Reqs :
          (/\ Formatted(r)
           /\ ~(~Given(r).neg /\ Given(r).int = 0 /\ Given(r).frac \in 1..9999))
          => /\ response[r].text =
                   IF Below(Given(r), 1000) THEN toFixed(Given(r))
                   ELSE IF Below(Given(r), 1000000) THEN Scaled(Given(r), 1000, <<"K">>)
                   ELSE IF Below(Given(r), 1000000000) THEN Scaled(Given(r), 1000000, <<"M">>)
                   ELSE Scaled(Given(r), 1000000000, <<"B">>)
             /\ Below(Given(r), 1000) => FixedTwo(response[r].text)
    /\ RendersAs(<<"9", "9", "9">>, <<"9", "9", "9", ".", "0", "0">>)
    /\ RendersAs(<<"1", "0", "0", "0">>, <<"1", ".", "0", "0", "K">>)
    /\ RendersAs(<<"1", "0", "0", "0", "0", "0", "0">>, <<"1", ".", "0", "0", "M">>)
    /\ RendersAs(<<"1", "0", "0", "0", "0", "0", "0", "0", "0", "0">>, <<"1", ".", "0", "0", "B">>)
    /\ RendersAs(<<"0">>, <<"0", ".", "0", "0">>)

C19_Witness ==
    \E r \in Reqs :
        /\ Formatted(r)
        /\ req[r].buttonValue.s = <<"1", "0", "0", "0">>
        /\ response[r].text = <<"1", ".", "0", "0", "K">>

(* C20, as stated: every value below 0.01 is rendered in scientific notation
   with 2 significant digits (one digit after the point). *)
C20_ScientificBelowHundredth ==
    \A r \in Reqs :
        (Formatted(r) /\ (Given(r).neg \/ (Given(r).int = 0 /\ Given(r).frac < 10000)))
        => Scientific(response[r].text, 1)

(* C20, amended: every value strictly between 0 and 0.01 is rendered in
   scientific notation with 2 digits after the point (3 significant digits),
   by each variant of the formatter; 0 and the negative values are rendered
   with fixed 2 decimals; 0.005 gives "5.00e-3". *)
C20_ScientificBetweenZeroAndHundredth ==
    /\ \A r \in Reqs :
          Formatted(r) =>
              /\ (~Given(r).neg /\ Given(r).int = 0 /\ Given(r).frac \in 1..9999)
                 => Scientific(response[r].text, 2)
              /\ (Given(r).neg \/ (Given(r).int = 0 /\ Given(r).frac = 0))
                 => FixedTwo(response[r].text)
    /\ RendersAs(<<"0", ".", "0", "0", "5">>, <<"5", ".", "0", "0", "e", "-", "3">>)

C20_Witness ==
    \E r \in Reqs :
        /\ Formatted(r)
        /\ req[r].route = "formatNumber.share"
        /\ req[r].buttonValue.s = <<"0", ".", "0", "0", "5">>
        /\ response[r].text = <<"5", ".", "0", "0", "e", "-", "3">>

BalanceCall(r) == req[r].route = "formatBalance" /\ Done(r)
UnsignedInteger(s) == s # <<>> /\ \A k \in DOMAIN s : s[k] \in Digits

(* C21: for every balance that is a non-negative integer in decimal digits,
   formatBalance with the default 18 decimals returns a text with exactly 2
   fractional digits; 10^18 gives "1.00" and 0 gives "0.00". *)
C21_TwoFractionalDigits ==
    \A r \in Reqs :
        (BalanceCall(r) /\ UnsignedInteger(req[r].buttonValue.s))
        => /\ response[r].kind = "text"
           /\ FixedTwo(response[r].text)
           /\ req[r].buttonValue.s = Wei(<<"1">>, 18) => response[r].text = <<"1", ".", "0", "0">>
           /\ req[r].buttonValue.s = <<"0">> => response[r].text = <<"0", ".", "0", "0">>

Labelled(bs, label) == SelectSeq(bs, LAMBDA b : b.label = label)
ShowsHolding(r) == req[r].route \in OwnedRoutes /\ response[r].kind = "holding"

(* C22: a holding view of /owned-tokens for index i of N holdings has a Next
   button exactly when i < N-1, with value i+1, and a Previous button exactly
   when i > 0, with value i-1; every cursor value it carries is in 0..N-1. *)
C22_NextPreviousButtons ==
    \A r \in Reqs :
        ShowsHolding(r) =>
            LET i    == response[r].index
                N    == response[r].total
                next == Labelled(response[r].buttons, "Next")
                prev == Labelled(response[r].buttons, "Previous")
            IN  /\ N = Len(allOwnedTokens[r])
                /\ Len(next) = (IF i < N - 1 THEN 1 ELSE 0)
                /\ Len(prev) = (IF i > 0 THEN 1 ELSE 0)
                /\ \A k \in DOMAIN next :
                      next[k].action = "/owned-tokens" /\ next[k].value = toString(i + 1)
                /\ \A k \in DOMAIN prev :
                      prev[k].action = "/owned-tokens" /\ prev[k].value = toString(i - 1)
                /\ \A b \in Range(next \o prev) :
                      ~parseInt(b.value).nan /\ parseInt(b.value).v \in 0..(N - 1)

C22_Witness ==
    \E r \in Reqs :
        /\ ShowsHolding(r)
        /\ response[r].index = 1
        /\ response[r].total = 3
        /\ Len(Labelled(response[r].buttons, "Next")) = 1
        /\ Len(Labelled(response[r].buttons, "Previous")) = 1

(* The cursor a request came with: the button value or the tokenIndex
   parameter, 0 when absent or empty. *)
Cursor(r) ==
    parseInt(IF req[r].buttonValue.has /\ req[r].buttonValue.s # <<>>
             THEN req[r].buttonValue.s ELSE <<"0">>)
HoldingRoutes == {"owned-tokens", "owned-tokens.v2", "share-owned"}
HoldingShown(r) ==
    req[r].route \in HoldingRoutes /\ response[r].kind \in {"holding", "sharedHolding"}

(* C23: whatever cursor /owned-tokens or tokenIndex /share-owned came with, a
   holding is shown only for an index i with 0 <= i < N, N the length of the
   list fetched in the same request; the holding is element i of that list, i
   is the numeric cursor (a negative one counted as 0 where the route does
   so), and /owned-tokens labels it "i+1 of N". *)
C23_HoldingOnlyInRange ==
    \A r \in Reqs :
        HoldingShown(r) =>
            LET list == allOwnedTokens[r]
                i    == req[r].currentIndex
            IN  /\ ~i.nan /\ i.v \in 0..(Len(list) - 1)
                /\ ~Cursor(r).nan
                /\ i.v = (IF Cursor(r).v < 0 THEN 0 ELSE Cursor(r).v)
                /\ req[r].route # "owned-tokens.v2" => list = OrEmpty(req[r].fetched)
                /\ response[r].token = list[i.v + 1]
                /\ response[r].kind = "holding"
                   => response[r].index = i.v /\ response[r].total = Len(list)

C23_Witness ==
    \E r \in Reqs :
        /\ HoldingShown(r)
        /\ req[r].route = "owned-tokens"
        /\ req[r].buttonValue = Value(<<"1">>)
        /\ response[r].index = 1
        /\ response[r].total = 3
        /\ response[r].token = H9

(* The views of the session so far, the current one last. *)
Views(r) == [k \in 1..Len(session) |-> session[k].view] \o <<response[r]>>
FirstCursor(r) == IF session = <<>> THEN req[r].buttonValue ELSE session[1].cursor
(* No address, vesting or portfolio query of the session has failed. *)
NoFetchFailed(r) ==
    \A k \in DOMAIN replies[r] :
        replies[r][k].api # "GetProfileInfo" => replies[r][k].outcome = "ok"
OnHolding(r) == req[r].route = "owned-tokens" /\ Done(r) /\ response[r].kind = "holding"

(* C24: in a session on an unchanged upstream list of N holdings whose
   queries succeed, opened without a cursor, after k presses of Next the views
   shown are the holdings 1..k+1 of the list in order, each labelled with its
   position, and the view has no Next button exactly when it shows holding N
   (after N-1 presses); a Next followed by a Previous shows the holding that
   was shown before the two presses. *)
C24_WalkShowsEveryHolding ==
    \A r \in Reqs :
        (OnHolding(r) /\ NoFetchFailed(r)) =>
            LET views == Views(r)
                N     == Len(allOwnedTokens[r])
            IN  /\ (FirstCursor(r) = NoValue /\ \A k \in DOMAIN session : session[k].pressed = "Next")
                   => \A k \in DOMAIN views :
                         /\ views[k].index = k - 1
                         /\ views[k].total = N
                         /\ views[k].token = allOwnedTokens[r][k]
                         /\ (Labelled(views[k].buttons, "Next") = <<>>) <=> (k = N)
                /\ \A k \in DOMAIN session :
                      (k < Len(session) /\ session[k].pressed = "Next"
                                        /\ session[k + 1].pressed = "Previous")
                      => /\ views[k + 2].index = views[k].index
                         /\ views[k + 2].token = views[k].token

C24_Witness ==
    \E r \in Reqs :
        /\ OnHolding(r) /\ NoFetchFailed(r)
        /\ FirstCursor(r) = NoValue
        /\ Len(session) = 2
        /\ \A k \in DOMAIN session : session[k].pressed = "Next"
        /\ response[r].index = 2
        /\ response[r].total = 3
        /\ Labelled(response[r].buttons, "Next") = <<>>

-----------------------------------------------------------------------------
(* C25: a share link built by /owned-tokens for a holding, opened on
   /share-owned while the upstream data and replies are the same, shows the
   same holding: the same owner or token name, balance, buy volume and
   price. *)

(* The shared view request r ended with, after opening a Share link. *)
Shared(r) ==
    /\ session # <<>>
    /\ session[1].pressed = "Share"
    /\ req[r].route \in {"share-owned", "share-owned.v2"}
    /\ req[r].pc = "done"

(* The replies to the shared request are those the holding view was built
   from, and the profile lookup answered the same. *)
SameUpstream(r) ==
    LET n == session[1].replies
        before == SubSeq(replies[r], n - (Len(replies[r]) - n) + 1, n)
        after  == SubSeq(replies[r], n + 1, Len(replies[r]))
    IN  /\ Len(replies[r]) - n <= n
        /\ before = after
        /\ req[r].profile = session[1].profile

(* What a view shows of its holding. *)
Shows(view) ==
    [name |-> IF view.kind = "shareOwned" THEN view.tokenName ELSE view.tokenOwnerName,
     tokenBalance |-> view.tokenBalance,
     buyVolume |-> view.buyVolume,
     currentPrice |-> view.currentPrice]

C25_SharedViewSameHolding ==
    \A r \in Reqs :
        Shared(r) /\ SameUpstream(r) =>
            /\ response[r].kind \in {"sharedHolding", "shareOwned"}
            /\ Shows(response[r]) = Shows(session[1].view)

(* The link of src/api/index.tsx alone. *)
C25_IndexLinkSameHolding ==
    \A r \in Reqs :
        Shared(r) /\ SameUpstream(r) /\ req[r].route = "share-owned" =>
            /\ response[r].kind = "sharedHolding"
            /\ Shows(response[r]) = Shows(session[1].view)

-----------------------------------------------------------------------------
(* C26: in /owned-tokens, when address resolution fails or finds no profile,
   the route renders the error response carrying the failure message and
   issues neither the vesting nor the portfolio query; when only the vesting
   lookup fails, the request continues and the portfolio is fetched for the
   wallet addresses alone. *)

(* Address resolution of request r was answered with a failure, or with no
   profile. *)
AddressesFailed(r) ==
    /\ req[r].route = "owned-tokens"
    /\ Len(replies[r]) >= 1
    /\ getFarcasterAddressesFromFID(replies[r][1].outcome, social).threw

(* Address resolution succeeded and the vesting lookup was answered with a
   failure. *)
VestingFailed(r) ==
    /\ req[r].route = "owned-tokens"
    /\ Len(replies[r]) >= 2
    /\ replies[r][2].outcome # "ok"

C26_AddressFailureStopsVestingFailureContinues ==
    \A r \in Reqs :
        /\ AddressesFailed(r) =>
              /\ req[r].pc = "done"
              /\ response[r] =
                   ErrorResponse(getFarcasterAddressesFromFID(replies[r][1].outcome, social).message)
              /\ Len(calls[r]) = 1
              /\ calls[r][1].api = "Socials"
        /\ VestingFailed(r) =>
              /\ Len(calls[r]) >= 3
              /\ calls[r][3] = [api |-> "users",
                                variables |-> [i \in DOMAIN req[r].userAddresses |->
                                                 toLowerCase(req[r].userAddresses[i])]]

C26_Witness ==
    \E r \in Reqs :
        /\ VestingFailed(r)
        /\ Len(req[r].userAddresses) > 1
        /\ response[r].kind = "holding"

-----------------------------------------------------------------------------
(* C27: /share-owned given a tokenIndex not below the number of holdings, or
   an empty portfolio, answers "No fan token found for this index" with a
   single Home button: never an error and never a holding view. *)

(* The portfolio of request r to /share-owned was fetched, and tokenIndex is
   not below the number of holdings (none, when the list is empty). *)
IndexPastHoldings(r) ==
    /\ req[r].route = "share-owned"
    /\ Len(replies[r]) >= 3
    /\ \/ allOwnedTokens[r] = <<>>
       \/ ~req[r].currentIndex.nan /\ req[r].currentIndex.v >= Len(allOwnedTokens[r])

C27_NoTokenForIndex ==
    \A r \in Reqs :
        IndexPastHoldings(r) =>
            /\ req[r].pc = "done"
            /\ response[r].kind = "noTokenForIndex"
            /\ response[r].buttons = <<Button("Home", "/")>>

(* With holdings and an index past them, and with none. *)
C27_Witness ==
    \E r \in Reqs :
        /\ IndexPastHoldings(r)
        /\ allOwnedTokens[r] # <<>>
        /\ req[r].currentIndex.v = 3
        /\ response[r].kind = "noTokenForIndex"

-----------------------------------------------------------------------------
(* C28: a failed or empty secondary profile lookup for a fid: holding does not
   fail the request: /owned-tokens and /share-owned still render the holding
   view, with the token's own name. *)

(* The last call of request r was the profile lookup of the token's owner,
   and it failed or came back without a profile. *)
ProfileLookupEmpty(r) ==
    /\ req[r].route \in {"owned-tokens", "owned-tokens.v2", "share-owned", "share-owned.v2"}
    /\ req[r].pc = "done"
    /\ replies[r] # <<>>
    /\ Last(replies[r]).api = "GetProfileInfo"
    /\ req[r].profile.isNull

(* The amounts of the query string of /share-owned of part_002 are integers
   (the holdings of the upstream with a fid: symbol are). *)
AmountsFormat(r) ==
    req[r].route = "share-owned.v2" =>
        /\ IsBigInt(req[r].query.balance.s)
        /\ IsBigInt(req[r].query.buyVolume.s)

C28_TokenNameWithoutProfile ==
    \A r \in Reqs :
        ProfileLookupEmpty(r) /\ AmountsFormat(r) =>
            IF req[r].route = "share-owned.v2"
            THEN /\ response[r].kind = "shareOwned"
                 /\ response[r].tokenName = req[r].tokenInfo.name
            ELSE /\ response[r].kind \in {"holding", "sharedHolding"}
                 /\ response[r].tokenOwnerName = req[r].token.subjectToken.name

(* Both routes of src/api/index.tsx: here /share-owned after a failed
   lookup. *)
C28_Witness ==
    \E r \in Reqs :
        /\ ProfileLookupEmpty(r)
        /\ req[r].route = "share-owned"
        /\ Last(replies[r]).outcome # "ok"
        /\ response[r].kind = "sharedHolding"
        /\ response[r].tokenOwnerName = "tok7"

-----------------------------------------------------------------------------
(* C29: for every value from 1e3 the number printed before the K, M or B
   suffix is at least 1.00, and below 1000 for K and M; a value just under
   1e3 is not printed as "1000.00". *)

(* The number a formatted text starts with, before its suffix. *)
Printed(text) ==
    parseFloatDec(IF Last(text) \in {"K", "M", "B"} THEN SubSeq(text, 1, Len(text) - 1) ELSE text)

C29_PrintedNumberInRange ==
    \A r \in Reqs :
        (Formatted(r) /\ ~Given(r).neg) =>
            LET text == response[r].text
            IN  /\ AtLeast(Given(r), 1000) =>
                      /\ Last(text) \in {"K", "M", "B"}
                      /\ Printed(text).int >= 1
                /\ Last(text) \in {"K", "M"} => Printed(text).int < 1000
                /\ ~AtLeast(Given(r), 1000) => Printed(text).int < 1000

-----------------------------------------------------------------------------
(* C30: /yourfantoken and /share show the powerboost score as a number with 2
   decimals whenever the upstream provides a numeric powerBoost for the user,
   the value 0 included, and show N/A only when the upstream provides no
   score or the query fails. *)

(* Request r rendered its view after the powerBoost query was answered. *)
ScoreShown(r) ==
    /\ req[r].route \in {"share", "yourfantoken"}
    /\ req[r].pc = "done"
    /\ response[r].kind \in {"share", "yourfantoken"}
    /\ replies[r] # <<>>
    /\ Last(replies[r]).api = "Socials.powerBoost"

(* The reply carried a numeric powerBoost. *)
ScoreProvided(r) ==
    /\ Last(replies[r]).outcome = "ok"
    /\ Last(replies[r]).users # <<>>
    /\ Last(replies[r]).users[1].has

C30_PowerboostShownWhenProvided ==
    \A r \in Reqs :
        ScoreShown(r) =>
            response[r].powerboost =
                IF ScoreProvided(r) THEN toFixed2(Last(replies[r]).users[1].v) ELSE NA

=============================================================================
